---- MODULE Spec2Model ----
(***************************************************************************)
(* Model of the dambo analysis backend (server/app): the row filter, the   *)
(* chart aggregators of services/dataset_visualizer.py and the scoring     *)
(* heuristics of services/quick_analyzer.py and gemini_analyzer.py.        *)
(*                                                                         *)
(* A call of a pure function is one action: it draws its arguments, runs   *)
(* the function on the caller's table `df` and records what came back in   *)
(* `result`.  Floating point numbers are exact rationals n/d extended with *)
(* +inf, -inf and NaN, with IEEE-754 rules for the special values.         *)
(***************************************************************************)
EXTENDS Integers, Sequences, FiniteSets, TLC

VARIABLES
    df,      \* the table the caller holds (a pandas DataFrame)
    op,      \* the function called last ("none" before any call)
    args,    \* the arguments of that call
    result,  \* what the call produced: a payload, or the exception raised
    projects,        \* the rows of table "projects" (db/models/project.py)
    datasets,        \* the rows of table "datasets" (db/models/dataset.py)
    canvas_states,   \* the rows of table "canvas_states" (db/models/canvas_state.py)
    files,           \* the file store: the (project_id, dataset_id) that have a file
    _projects,       \* the in-memory store of services/dataframe_store.py
    requests         \* the HTTP requests being served, each with its position

\* The state of the HTTP server: database, file store, memory, requests.
server == <<projects, datasets, canvas_states, files, _projects, requests>>

vars == <<df, op, args, result, server>>

\* The analysis functions are studied on their own, no server around them.
NoServer ==
    /\ projects = <<>>
    /\ datasets = <<>>
    /\ canvas_states = <<>>
    /\ files = {}
    /\ _projects = <<>>
    /\ requests = <<>>

(***************************************************************************)
(* Bounds of the model.                                                    *)
(***************************************************************************)
MaxRows == 4
MaxBins == 3
MaxLimit == 3
FilterRows == 2
CorrRows == 3
MaxHigh == 3
MaxModerate == 5
MaxOutlierCols == 5
ChartRows == 2
\* numeric columns handed to the scatter recommender
MaxNumeric == 5
\* column pairs that have a correlation
MaxCorrs == 6
\* runs of equal cells in a column given to type inference
MaxRuns == 3
\* rows of a table given to the profiler and the quick analyzer
AnalyzeRows == 4
\* rows of a table whose identity is followed through an aggregator
FrameRows == 2
\* numeric columns of a table whose correlations are ranked
RankColumns == 4
\* identifiers generate_short_id can draw
MaxIds == 2
\* HTTP requests served at the same time
MaxRequests == 2

(***************************************************************************)
(* Sequence helpers.                                                       *)
(***************************************************************************)
RECURSIVE SumSeq(_)
SumSeq(s) == IF s = <<>> THEN 0 ELSE Head(s) + SumSeq(Tail(s))

Range(s) == {s[i] : i \in DOMAIN s}

Contains(s, e) == \E i \in DOMAIN s : s[i] = e

\* The subsequence of s at the positions where keep[i] is TRUE.
RECURSIVE Mask(_, _)
Mask(s, keep) ==
    IF s = <<>> THEN <<>>
    ELSE (IF Head(keep) THEN <<Head(s)>> ELSE <<>>) \o Mask(Tail(s), Tail(keep))

\* All sequences over S of length 0..n.
SeqsUpTo(S, n) == UNION {[1..m -> S] : m \in 0..n}

Abs(i) == IF i < 0 THEN -i ELSE i

Min2(a, b) == IF a <= b THEN a ELSE b
Max2(a, b) == IF a >= b THEN a ELSE b

(***************************************************************************)
(* Floating point values.  k is "fin" (the rational n/d, d > 0), "inf"     *)
(* (n = 1 or -1 is the sign) or "nan".                                     *)
(***************************************************************************)
Fin(n, d) == [k |-> "fin", n |-> n, d |-> d]
Int2F(i) == Fin(i, 1)
Inf(sign) == [k |-> "inf", n |-> sign, d |-> 1]
NaN == [k |-> "nan", n |-> 0, d |-> 1]

IsNaN(a) == a.k = "nan"
IsInf(a) == a.k = "inf"
IsFinite(a) == a.k = "fin"

Sign(i) == IF i > 0 THEN 1 ELSE IF i < 0 THEN -1 ELSE 0

\* -1, 0, 1: where a stands on the extended real line (a is not NaN).
Rank(a) == IF a.k = "inf" THEN a.n ELSE 0

FLt(a, b) ==
    /\ ~IsNaN(a) /\ ~IsNaN(b)
    /\ \/ Rank(a) < Rank(b)
       \/ IsFinite(a) /\ IsFinite(b) /\ a.n * b.d < b.n * a.d

FEq(a, b) ==
    /\ ~IsNaN(a) /\ ~IsNaN(b)
    /\ \/ IsInf(a) /\ IsInf(b) /\ a.n = b.n
       \/ IsFinite(a) /\ IsFinite(b) /\ a.n * b.d = b.n * a.d

FLe(a, b) == FLt(a, b) \/ FEq(a, b)
FGt(a, b) == FLt(b, a)
FGe(a, b) == FLe(b, a)
FNe(a, b) == ~FEq(a, b)

FNeg(a) == IF IsNaN(a) THEN NaN ELSE [a EXCEPT !.n = -a.n]

FAdd(a, b) ==
    IF IsNaN(a) \/ IsNaN(b) THEN NaN
    ELSE IF IsInf(a) /\ IsInf(b) THEN (IF a.n = b.n THEN a ELSE NaN)
    ELSE IF IsInf(a) THEN a
    ELSE IF IsInf(b) THEN b
    ELSE Fin(a.n * b.d + b.n * a.d, a.d * b.d)

FSub(a, b) == FAdd(a, FNeg(b))

FMul(a, b) ==
    IF IsNaN(a) \/ IsNaN(b) THEN NaN
    ELSE IF IsInf(a) \/ IsInf(b) THEN
        (IF Sign(a.n) * Sign(b.n) = 0 THEN NaN ELSE Inf(Sign(a.n) * Sign(b.n)))
    ELSE Fin(a.n * b.n, a.d * b.d)

\* a / b for a finite, non-zero b.
FDivFin(a, b) == FMul(a, Fin(Sign(b.n) * b.d, Abs(b.n)))

\* floor(n/d) for d > 0 (TLC's \div rounds toward minus infinity).
FloorDiv(n, d) == n \div d
(***************************************************************************)
(* Text.  A Python str is a sequence of one-character strings; Ord gives   *)
(* the code point that str comparison orders by.                           *)
(***************************************************************************)
Ord(c) ==
    CASE c = "(" -> 40 [] c = "+" -> 43 [] c = "-" -> 45 [] c = "." -> 46
      [] c = "0" -> 48 [] c = "1" -> 49 [] c = "2" -> 50 [] c = "3" -> 51
      [] c = "4" -> 52 [] c = "5" -> 53 [] c = "6" -> 54 [] c = "7" -> 55
      [] c = "8" -> 56 [] c = "9" -> 57
      [] c = "A" -> 65 [] c = "B" -> 66 [] c = "F" -> 70 [] c = "I" -> 73
      [] c = "N" -> 78
      [] c = "a" -> 97 [] c = "b" -> 98 [] c = "f" -> 102 [] c = "i" -> 105
      [] c = "n" -> 110 [] c = "x" -> 120
      [] OTHER -> 0

IsDigit(c) == Ord(c) >= 48 /\ Ord(c) <= 57

LowerChar(c) ==
    CASE c = "A" -> "a" [] c = "B" -> "b" [] c = "F" -> "f" [] c = "I" -> "i"
      [] c = "N" -> "n" [] OTHER -> c

Lower(t) == [i \in DOMAIN t |-> LowerChar(t[i])]

\* Python's str < str: by code point, a proper prefix first.
RECURSIVE StrLt(_, _)
StrLt(a, b) ==
    IF b = <<>> THEN FALSE
    ELSE IF a = <<>> THEN TRUE
    ELSE IF Head(a) # Head(b) THEN Ord(Head(a)) < Ord(Head(b))
    ELSE StrLt(Tail(a), Tail(b))

RECURSIVE DigitsValue(_, _)
DigitsValue(t, acc) ==
    IF t = <<>> THEN acc ELSE DigitsValue(Tail(t), 10 * acc + (Ord(Head(t)) - 48))

\* float(str): an optional sign, then "inf", "nan" (any case) or decimal digits.
\* ok = FALSE is the ValueError of a literal that is not a number.
ParseFloat(t) ==
    LET signed == t # <<>> /\ Head(t) \in {"+", "-"}
        sgn == IF signed /\ Head(t) = "-" THEN -1 ELSE 1
        body == Lower(IF signed THEN Tail(t) ELSE t)
    IN  IF body = <<"i", "n", "f">> THEN [ok |-> TRUE, val |-> Inf(sgn)]
        ELSE IF body = <<"n", "a", "n">> THEN [ok |-> TRUE, val |-> NaN]
        ELSE IF body # <<>> /\ \A i \in DOMAIN body : IsDigit(body[i])
             THEN [ok |-> TRUE, val |-> Int2F(sgn * DigitsValue(body, 0))]
        ELSE [ok |-> FALSE, val |-> NaN]

(***************************************************************************)
(* Regular expressions, as far as str.contains(pat, case=False) meets them *)
(* here: "." matches any character, "(" opens a group that is never        *)
(* closed (re.error), every other character matches itself.                *)
(***************************************************************************)
RegexValid(pat) == ~Contains(pat, "(")

RegexMatchAt(pat, t, at) ==
    /\ at + Len(pat) - 1 <= Len(t)
    /\ \A i \in DOMAIN pat :
          pat[i] = "." \/ LowerChar(pat[i]) = LowerChar(t[at + i - 1])

RegexSearch(pat, t) == \E at \in 1..(Len(t) + 1) : RegexMatchAt(pat, t, at)

(***************************************************************************)
(* Tables.  A DataFrame is its row index and its columns in order; a       *)
(* column has a name, a dtype ("float64" or "object") and one cell per     *)
(* row.  A float64 cell is a floating point value (NaN is the missing      *)
(* cell); an object cell is a str, or NaN when missing.                    *)
(***************************************************************************)
Str(t) == [k |-> "str", s |-> t]

IsMissing(cell) == cell.k = "nan"

Column(name, dtype, cells) == [name |-> name, dtype |-> dtype, cells |-> cells]

DataFrame(index, cols) == [index |-> index, cols |-> cols]

Columns(t) == [i \in DOMAIN t.cols |-> t.cols[i].name]

HasColumn(t, c) == \E i \in DOMAIN t.cols : t.cols[i].name = c

\* df[c]
Series(t, c) == t.cols[CHOOSE i \in DOMAIN t.cols : t.cols[i].name = c]

NRows(t) == Len(t.index)

\* df[mask]
TakeRows(t, keep) ==
    [index |-> Mask(t.index, keep),
     cols  |-> [i \in DOMAIN t.cols |->
                   [t.cols[i] EXCEPT !.cells = Mask(t.cols[i].cells, keep)]]]

is_numeric_dtype(series) == series.dtype \in {"float64", "int64"}

\* series.dropna()
dropna(series) ==
    [series EXCEPT !.cells = SelectSeq(series.cells, LAMBDA c : ~IsMissing(c))]

\* pd.to_numeric(series, errors='coerce'): a str that is no number becomes NaN.
CoerceCell(cell) ==
    IF cell.k = "str" THEN (IF ParseFloat(cell.s).ok THEN ParseFloat(cell.s).val ELSE NaN)
    ELSE cell

to_numeric(series) ==
    [series EXCEPT !.dtype = "float64",
                   !.cells = [i \in DOMAIN series.cells |-> CoerceCell(series.cells[i])]]

DigitChar(i) ==
    CASE i = 0 -> "0" [] i = 1 -> "1" [] i = 2 -> "2" [] i = 3 -> "3" [] i = 4 -> "4"
      [] i = 5 -> "5" [] i = 6 -> "6" [] i = 7 -> "7" [] i = 8 -> "8" [] i = 9 -> "9"

RECURSIVE NatToText(_)
NatToText(i) ==
    IF i < 10 THEN <<DigitChar(i)>> ELSE NatToText(i \div 10) \o <<DigitChar(i % 10)>>

\* str() of a cell: the text itself, "nan", "inf", "-inf", or the repr of a
\* float with an integral value ("5.0").
AsStr(cell) ==
    CASE cell.k = "str" -> cell.s
      [] cell.k = "nan" -> <<"n", "a", "n">>
      [] cell.k = "inf" -> (IF cell.n < 0 THEN <<"-">> ELSE <<>>) \o <<"i", "n", "f">>
      [] cell.k = "fin" -> (IF cell.n < 0 THEN <<"-">> ELSE <<>>)
                               \o NatToText(Abs(cell.n)) \o <<".", "0">>

(***************************************************************************)
(* Optional arguments.  None stands for Python's None where a column name  *)
(* or an operator is expected, NoValue where a filter literal is.          *)
(***************************************************************************)
None == "<None>"
NoValue == <<"<None>">>

\* Python's truth value of an optional str.
Truthy(name) == name # None /\ name # ""

(***************************************************************************)
(* Outcomes: a call returns a value or raises an exception.                *)
(***************************************************************************)
Ok(v) == [raised |-> FALSE, exc |-> "", what |-> "", value |-> v]
Raise(exc, what) == [raised |-> TRUE, exc |-> exc, what |-> what, value |-> <<>>]

(***************************************************************************)
(* Row Filter: dataset_visualizer.apply_filter.                            *)
(***************************************************************************)
NumericOps == {">", "<", ">=", "<=", "==", "!="}

NumCompare(operator, cell, v) ==
    CASE operator = ">"  -> FGt(cell, v)
      [] operator = "<"  -> FLt(cell, v)
      [] operator = ">=" -> FGe(cell, v)
      [] operator = "<=" -> FLe(cell, v)
      [] operator = "==" -> FEq(cell, v)
      [] operator = "!=" -> FNe(cell, v)

StrCompare(operator, t, v) ==
    CASE operator = ">"  -> StrLt(v, t)
      [] operator = "<"  -> StrLt(t, v)
      [] operator = ">=" -> ~StrLt(t, v)
      [] operator = "<=" -> ~StrLt(v, t)
      [] operator = "==" -> t = v
      [] operator = "!=" -> t # v
      [] operator = "contains" -> RegexSearch(v, t)

\* The try block of apply_filter (lines 35-72): the filtered table, the table
\* itself when no branch returns, or the exception float() or re raises.
FilterBody(t, column, operator, value) ==
    LET series == Series(t, column)
    IN  IF is_numeric_dtype(series) THEN
            IF ~ParseFloat(value).ok
            THEN Raise("ValueError: could not convert string to float", "")
            ELSE IF operator \in NumericOps THEN
                Ok(TakeRows(t, [i \in DOMAIN series.cells |->
                       NumCompare(operator, series.cells[i], ParseFloat(value).val)]))
            ELSE Ok(t)
        ELSE
            IF operator \in NumericOps THEN
                Ok(TakeRows(t, [i \in DOMAIN series.cells |->
                       StrCompare(operator, AsStr(series.cells[i]), value)]))
            ELSE IF operator = "contains" THEN
                IF ~RegexValid(value) THEN Raise("re.error", "")
                ELSE Ok(TakeRows(t, [i \in DOMAIN series.cells |->
                            StrCompare(operator, AsStr(series.cells[i]), value)]))
            ELSE Ok(t)

\* Mutant of apply_filter: a value that is None is not passed through.
apply_filter_value_unchecked(t, column, operator, value) ==
    IF ~Truthy(column) \/ ~Truthy(operator) THEN Ok(t)
    ELSE IF ~HasColumn(t, column) THEN Ok(t)
    ELSE LET r == FilterBody(t, column, operator, value)
         IN  IF r.raised THEN Ok(t) ELSE r

\* Mutant of apply_filter: the try block has no except clause.
apply_filter_uncaught(t, column, operator, value) ==
    IF ~Truthy(column) \/ ~Truthy(operator) \/ value = NoValue THEN Ok(t)
    ELSE IF ~HasColumn(t, column) THEN Ok(t)
    ELSE FilterBody(t, column, operator, value)

apply_filter(t, column, operator, value) ==
    IF ~Truthy(column) \/ ~Truthy(operator) \/ value = NoValue THEN Ok(t)
    ELSE IF ~HasColumn(t, column) THEN Ok(t)
    ELSE LET r == FilterBody(t, column, operator, value)
         IN  IF r.raised THEN Ok(t)       \* except Exception: return df
             ELSE r

(***************************************************************************)
(* Payload values.  A payload number carries the Python type it has when   *)
(* it reaches _make_serializable: a numpy scalar ("np.float64",            *)
(* "np.int64") or a built-in one ("float", "int", after .tolist());        *)
(* "NoneType" is null.                                                     *)
(***************************************************************************)
ColumnNotFound(c) == Raise("ValueError: Column not found", c)

PyFloat(f) == [ty |-> "float", num |-> f]
NpFloat(f) == [ty |-> "np.float64", num |-> f]
PyInt(i) == [ty |-> "int", num |-> Int2F(i)]
NpInt(i) == [ty |-> "np.int64", num |-> Int2F(i)]
Null == [ty |-> "NoneType", num |-> NaN]

\* pd.isna(value) of a scalar
isna(v) == v.ty = "NoneType" \/ (v.ty \in {"float", "np.float64"} /\ IsNaN(v.num))

\* Mutant of _make_serializable: a numpy NaN is passed on as a float.
make_serializable_nan_kept(v) ==
    IF v.ty = "np.int64" THEN [v EXCEPT !.ty = "int"]
    ELSE IF v.ty = "np.float64" THEN
        (IF IsInf(v.num) THEN Null ELSE [v EXCEPT !.ty = "float"])
    ELSE IF isna(v) THEN Null
    ELSE v

_make_serializable(v) ==
    IF v.ty = "np.int64" THEN [v EXCEPT !.ty = "int"]
    ELSE IF v.ty = "np.float64" THEN
        (IF IsNaN(v.num) \/ IsInf(v.num) THEN Null ELSE [v EXCEPT !.ty = "float"])
    ELSE IF isna(v) THEN Null
    ELSE v

\* series.tolist(): built-in floats
tolist(cells) == [i \in DOMAIN cells |-> PyFloat(cells[i])]

Serialize(values) == [i \in DOMAIN values |-> _make_serializable(values[i])]

\* What JSON can carry: null or a finite number.
JsonNumber(v) == v.ty = "NoneType" \/ v.num.k \in {"fin", "root"}

(***************************************************************************)
(* numpy.histogram(a, bins=b) for an int b: b equal-width bins over        *)
(* [min, max], the last bin closed on the right.                           *)
(***************************************************************************)
RECURSIVE FMinSeq(_)
FMinSeq(cells) ==
    IF Len(cells) = 1 THEN cells[1]
    ELSE LET m == FMinSeq(Tail(cells)) IN IF FLt(Head(cells), m) THEN Head(cells) ELSE m

RECURSIVE FMaxSeq(_)
FMaxSeq(cells) ==
    IF Len(cells) = 1 THEN cells[1]
    ELSE LET m == FMaxSeq(Tail(cells)) IN IF FGt(Head(cells), m) THEN Head(cells) ELSE m

Half == Fin(1, 2)

\* _get_outer_edges: the range, widened by 0.5 each side when it is a point.
OuterEdges(cells) ==
    LET lo == FMinSeq(cells)
        hi == FMaxSeq(cells)
    IN  IF FEq(lo, hi) THEN <<FSub(lo, Half), FAdd(hi, Half)>> ELSE <<lo, hi>>

\* Mutant of BinIndex: the right edge of the range is not folded into the last bin.
BinIndexOpenRight(x, first, last, bins) ==
    LET r == FDivFin(FMul(FSub(x, first), Int2F(bins)), FSub(last, first))
    IN  FloorDiv(r.n, r.d)

\* The bin of x: floor((x - first) * bins / (last - first)), the right edge
\* falling into the last bin.
BinIndex(x, first, last, bins) ==
    LET r == FDivFin(FMul(FSub(x, first), Int2F(bins)), FSub(last, first))
        i == FloorDiv(r.n, r.d)
    IN  IF i = bins THEN bins - 1 ELSE i

np_histogram(cells, bins) ==
    IF cells # <<>> /\ (~IsFinite(FMinSeq(cells)) \/ ~IsFinite(FMaxSeq(cells)))
    THEN Raise("ValueError: autodetected range is not finite", "")
    ELSE LET first == IF cells = <<>> THEN Int2F(0) ELSE OuterEdges(cells)[1]   \* a.size == 0
             last == IF cells = <<>> THEN Int2F(1) ELSE OuterEdges(cells)[2]
             width == FSub(last, first)
         IN  Ok([counts |-> [j \in 1..bins |->
                                Cardinality({i \in DOMAIN cells :
                                    BinIndex(cells[i], first, last, bins) = j - 1})],
                 bin_edges |-> [j \in 1..(bins + 1) |->
                                FAdd(first, FDivFin(FMul(width, Int2F(j - 1)), Int2F(bins)))]])

(***************************************************************************)
(* dataset_visualizer.get_histogram                                        *)
(***************************************************************************)
NotNumeric(c) == Raise("ValueError: Column is not numeric", c)

\* Lines 98-104 of get_histogram, 326-332 of get_boxplot: the present values
\* of the column as numbers, or the error of a column that holds none.
NumericSeries(t, column) ==
    LET series == dropna(Series(t, column))
    IN  IF is_numeric_dtype(series) THEN Ok(series)
        ELSE LET conv == dropna(to_numeric(series))
             IN  IF Len(conv.cells) = 0 THEN NotNumeric(column) ELSE Ok(conv)

get_histogram(t, column, bins, filter_column, filter_operator, filter_value) ==
    LET f == apply_filter(t, filter_column, filter_operator, filter_value)
    IN  IF f.raised THEN f
        ELSE IF ~HasColumn(f.value, column) THEN ColumnNotFound(column)
        ELSE LET series == NumericSeries(f.value, column)
             IN  IF series.raised THEN series
                 ELSE IF Len(series.value.cells) = 0
                 THEN Ok([column |-> column, bins |-> <<>>, counts |-> <<>>])
                 ELSE LET h == np_histogram(series.value.cells, bins)
                      IN  IF h.raised THEN h
                          ELSE Ok([column |-> column,
                                   bins |-> Serialize(tolist(h.value.bin_edges)),
                                   counts |-> Serialize([j \in DOMAIN h.value.counts |->
                                                 PyInt(h.value.counts[j])])])

(***************************************************************************)
(* series.value_counts(): the distinct present values with their           *)
(* frequencies, most frequent first, equal frequencies in order of first   *)
(* appearance.                                                             *)
(***************************************************************************)
RECURSIVE Distinct(_, _)
Distinct(cells, seen) ==
    IF cells = <<>> THEN seen
    ELSE Distinct(Tail(cells),
                  IF Contains(seen, Head(cells)) THEN seen ELSE Append(seen, Head(cells)))

CountOf(cells, v) == Cardinality({i \in DOMAIN cells : cells[i] = v})

\* Stable insertion of e into s, which is ordered by count, largest first.
RECURSIVE InsertByCount(_, _)
InsertByCount(s, e) ==
    IF s = <<>> THEN <<e>>
    ELSE IF Head(s).count >= e.count THEN <<Head(s)>> \o InsertByCount(Tail(s), e)
    ELSE <<e>> \o s

RECURSIVE SortByCount(_, _)
SortByCount(todo, done) ==
    IF todo = <<>> THEN done
    ELSE SortByCount(Tail(todo), InsertByCount(done, Head(todo)))

\* Mutant of value_counts: the values are left in order of first appearance.
value_counts_unsorted(series) ==
    LET cells == dropna(series).cells
        vals == Distinct(cells, <<>>)
    IN  [i \in DOMAIN vals |-> [value |-> vals[i], count |-> CountOf(cells, vals[i])]]

value_counts(series) ==
    LET cells == dropna(series).cells
        vals == Distinct(cells, <<>>)
    IN  SortByCount([i \in DOMAIN vals |->
                        [value |-> vals[i], count |-> CountOf(cells, vals[i])]], <<>>)

\* Mutant of tail: one entry short.
tail_short(s, n) == SubSeq(s, Len(s) - Min2(n, Len(s)) + 2, Len(s))

\* s.head(n) and s.tail(n) for n >= 0
head(s, n) == SubSeq(s, 1, Min2(n, Len(s)))
tail(s, n) == SubSeq(s, Len(s) - Min2(n, Len(s)) + 1, Len(s))

Counts(vc) == [i \in DOMAIN vc |-> vc[i].count]
\* [str(cat) for cat in value_counts.index.tolist()]
Labels(vc) == [i \in DOMAIN vc |-> AsStr(vc[i].value)]

\* value_counts.values.tolist(): built-in ints
CountValues(vc) == [i \in DOMAIN vc |-> PyInt(vc[i].count)]

(***************************************************************************)
(* dataset_visualizer.get_bar_counts                                       *)
(***************************************************************************)
get_bar_counts(t, column, filter_column, filter_operator, filter_value) ==
    LET f == apply_filter(t, filter_column, filter_operator, filter_value)
    IN  IF f.raised THEN f
        ELSE IF ~HasColumn(f.value, column) THEN ColumnNotFound(column)
        ELSE LET vc == value_counts(dropna(Series(f.value, column)))
             IN  Ok([column |-> column,
                     categories |-> Labels(vc),
                     counts |-> Serialize(CountValues(vc))])

(***************************************************************************)
(* dataset_visualizer.get_pie_data                                         *)
(***************************************************************************)
OtherLabel == <<"O", "t", "h", "e", "r">>

get_pie_data(t, column, limit, filter_column, filter_operator, filter_value) ==
    LET f == apply_filter(t, filter_column, filter_operator, filter_value)
    IN  IF f.raised THEN f
        ELSE IF ~HasColumn(f.value, column) THEN ColumnNotFound(column)
        ELSE LET vc == value_counts(Series(f.value, column))
             IN  IF Len(vc) > limit THEN
                     LET top == head(vc, limit - 1)
                         \* Series.sum() of an int64 Series: np.int64
                         other_count == NpInt(SumSeq(Counts(tail(vc, Len(vc) - limit + 1))))
                     IN  Ok([column |-> column,
                             categories |-> Labels(top) \o <<OtherLabel>>,
                             values |-> Serialize(CountValues(top))
                                            \o <<_make_serializable(other_count)>>])
                 ELSE Ok([column |-> column,
                          categories |-> Labels(vc),
                          values |-> Serialize(CountValues(vc))])
(***************************************************************************)
(* Series.quantile / numpy.percentile, method "linear": the value at the   *)
(* virtual index (n-1)*q of the sorted data, interpolated between its      *)
(* neighbours by numpy's _lerp.                                            *)
(***************************************************************************)
RECURSIVE InsertSorted(_, _)
InsertSorted(s, e) ==
    IF s = <<>> THEN <<e>>
    ELSE IF FLe(Head(s), e) THEN <<Head(s)>> \o InsertSorted(Tail(s), e)
    ELSE <<e>> \o s

RECURSIVE SortCells(_, _)
SortCells(todo, done) ==
    IF todo = <<>> THEN done ELSE SortCells(Tail(todo), InsertSorted(done, Head(todo)))

\* a + (b - a) * t, computed from b when t >= 0.5
Lerp(a, b, t) ==
    LET diff == FSub(b, a)
    IN  IF FLt(t, Half) THEN FAdd(a, FMul(diff, t))
        ELSE FSub(b, FMul(diff, FSub(Int2F(1), t)))

\* The quantile num/den of a non-empty sequence of present values.
quantile(cells, num, den) ==
    LET sorted == SortCells(cells, <<>>)
        n == Len(sorted)
        prev == ((n - 1) * num) \div den
        next == Min2(prev + 1, n - 1)
        gamma == Fin(((n - 1) * num) % den, den)
    IN  Lerp(sorted[prev + 1], sorted[next + 1], gamma)

RECURSIVE FSumSeq(_)
FSumSeq(cells) == IF cells = <<>> THEN Int2F(0) ELSE FAdd(Head(cells), FSumSeq(Tail(cells)))

mean(cells) == FDivFin(FSumSeq(cells), Int2F(Len(cells)))

\* Series.median(): the middle value, or the mean of the two middle values.
median(cells) ==
    LET sorted == SortCells(cells, <<>>)
        n == Len(sorted)
    IN  IF n % 2 = 1 THEN sorted[(n + 1) \div 2]
        ELSE FDivFin(FAdd(sorted[n \div 2], sorted[n \div 2 + 1]), Int2F(2))

(***************************************************************************)
(* dataset_visualizer.get_boxplot                                          *)
(***************************************************************************)
OnePointFive == Fin(3, 2)

lower_bound(q1, q3) == FSub(q1, FMul(OnePointFive, FSub(q3, q1)))
upper_bound(q1, q3) == FAdd(q3, FMul(OnePointFive, FSub(q3, q1)))

\* series[(series < lower_bound) | (series > upper_bound)]
IqrOutliers(cells, q1, q3) ==
    SelectSeq(cells, LAMBDA c : FLt(c, lower_bound(q1, q3)) \/ FGt(c, upper_bound(q1, q3)))

NoStats == [min |-> Null, q1 |-> Null, median |-> Null, q3 |-> Null, max |-> Null,
            mean |-> Null, none |-> TRUE]

get_boxplot(t, column, filter_column, filter_operator, filter_value) ==
    LET f == apply_filter(t, filter_column, filter_operator, filter_value)
    IN  IF f.raised THEN f
        ELSE IF ~HasColumn(f.value, column) THEN ColumnNotFound(column)
        ELSE LET series == NumericSeries(f.value, column)
             IN  IF series.raised THEN series
                 ELSE IF Len(series.value.cells) = 0
                 THEN Ok([column |-> column, stats |-> NoStats, outliers |-> <<>>])
                 ELSE LET cells == series.value.cells
                          q1 == quantile(cells, 1, 4)
                          q3 == quantile(cells, 3, 4)
                      IN  Ok([column |-> column,
                              stats |-> [min |-> _make_serializable(NpFloat(FMinSeq(cells))),
                                         q1 |-> _make_serializable(NpFloat(q1)),
                                         median |-> _make_serializable(NpFloat(median(cells))),
                                         q3 |-> _make_serializable(NpFloat(q3)),
                                         max |-> _make_serializable(NpFloat(FMaxSeq(cells))),
                                         mean |-> _make_serializable(NpFloat(mean(cells))),
                                         none |-> FALSE],
                              outliers |-> Serialize(tolist(IqrOutliers(cells, q1, q3)))])
(***************************************************************************)
(* dataset_visualizer.get_scatter                                          *)
(***************************************************************************)
\* df[[x, y]].dropna(), both columns made numeric, dropna() again: the rows
\* where both cells are present and are numbers.
ScatterRows(t, x, y) ==
    LET xs == Series(t, x).cells
        ys == Series(t, y).cells
    IN  [i \in DOMAIN xs |-> /\ ~IsMissing(xs[i]) /\ ~IsMissing(ys[i])
                             /\ ~IsMissing(CoerceCell(xs[i]))
                             /\ ~IsMissing(CoerceCell(ys[i]))]

get_scatter(t, x, y, filter_column, filter_operator, filter_value) ==
    LET f == apply_filter(t, filter_column, filter_operator, filter_value)
    IN  IF f.raised THEN f
        ELSE IF ~HasColumn(f.value, x) THEN ColumnNotFound(x)
        ELSE IF ~HasColumn(f.value, y) THEN ColumnNotFound(y)
        ELSE IF x = y
        \* clean_df[x] is a DataFrame of two columns: pd.to_numeric rejects it
        THEN Raise("TypeError: arg must be a list, tuple, 1-d array, or Series", "")
        ELSE LET keep == ScatterRows(f.value, x, y)
                 xs == to_numeric(Series(f.value, x)).cells
                 ys == to_numeric(Series(f.value, y)).cells
             IN  Ok([x_label |-> x, y_label |-> y,
                     x |-> Serialize(tolist(Mask(xs, keep))),
                     y |-> Serialize(tolist(Mask(ys, keep)))])

(***************************************************************************)
(* DataFrame.corr(): Pearson correlation over the rows where both columns  *)
(* are present.  A finite coefficient r is irrational in general and is    *)
(* kept as [k |-> "root", n, d] with sign(r) * r^2 = n/d, which is 1, 0 or *)
(* -1 exactly when r is.                                                   *)
(***************************************************************************)
Root(n, d) == [k |-> "root", n |-> n, d |-> d]

Pearson(xs, ys) ==
    LET both == {i \in DOMAIN xs : ~IsMissing(xs[i]) /\ ~IsMissing(ys[i])}
        m == Cardinality(both)
        RECURSIVE Sum(_, _)
        Sum(F(_), S) == IF S = {} THEN 0
                        ELSE LET i == CHOOSE j \in S : TRUE IN F(i) + Sum(F, S \ {i})
        X(i) == xs[i].n
        Y(i) == ys[i].n
        XX(i) == xs[i].n * xs[i].n
        YY(i) == ys[i].n * ys[i].n
        XY(i) == xs[i].n * ys[i].n
        sxx == m * Sum(XX, both) - Sum(X, both) * Sum(X, both)
        syy == m * Sum(YY, both) - Sum(Y, both) * Sum(Y, both)
        sxy == m * Sum(XY, both) - Sum(X, both) * Sum(Y, both)
    IN  IF m < 1 THEN NaN                                      \* min_periods
        ELSE IF \E i \in both : ~IsFinite(xs[i]) \/ ~IsFinite(ys[i]) THEN NaN
        ELSE IF sxx * syy = 0 THEN NaN                          \* divisor == 0
        ELSE Root(Sign(sxy) * sxy * sxy, sxx * syy)

\* df.select_dtypes(include=[np.number])
NumericColumns(t) == SelectSeq(t.cols, is_numeric_dtype)

(***************************************************************************)
(* dataset_visualizer.get_correlation                                      *)
(***************************************************************************)
get_correlation(t, filter_column, filter_operator, filter_value) ==
    LET f == apply_filter(t, filter_column, filter_operator, filter_value)
    IN  IF f.raised THEN f
        ELSE LET numeric == NumericColumns(f.value)
                 \* DataFrame.empty: no column or no row
                 empty == Len(numeric) = 0 \/ NRows(f.value) = 0
             IN  IF empty \/ Len(numeric) < 2
                 THEN Ok([columns |-> IF empty THEN <<>>
                                      ELSE [i \in DOMAIN numeric |-> numeric[i].name],
                          matrix |-> <<>>])
                 ELSE Ok([columns |-> [i \in DOMAIN numeric |-> numeric[i].name],
                          matrix |-> [i \in DOMAIN numeric |->
                                        [j \in DOMAIN numeric |->
                                            _make_serializable(NpFloat(
                                                Pearson(numeric[i].cells, numeric[j].cells)))]]])

(***************************************************************************)
(* Dates and groups.  The date columns met here hold text; a text of four  *)
(* digits is a year and parses to the first instant of that year, any      *)
(* other text met here is no date.                                         *)
(***************************************************************************)
Timestamp(year) == [k |-> "ts", year |-> year]
NaT == NaN

\* pd.to_datetime(series, errors='coerce'), cell by cell
ToDatetimeCell(cell) ==
    IF cell.k = "str" /\ Len(cell.s) = 4 /\ \A i \in DOMAIN cell.s : IsDigit(cell.s[i])
    THEN Timestamp(DigitsValue(cell.s, 0))
    ELSE NaT

to_datetime(series) ==
    [series EXCEPT !.dtype = "datetime64[ns]",
                   !.cells = [i \in DOMAIN series.cells |-> ToDatetimeCell(series.cells[i])]]

\* Timestamp.isoformat()
isoformat(ts) ==
    NatToText(ts.year)
        \o <<"-", "0", "1", "-", "0", "1", "T", "0", "0", ":", "0", "0", ":", "0", "0">>

\* The order groupby sorts its keys by.
CellLt(a, b) ==
    CASE a.k = "ts" -> a.year < b.year
      [] a.k = "str" -> StrLt(a.s, b.s)
      [] OTHER -> FLt(a, b)

RECURSIVE KeyLt(_, _)
KeyLt(a, b) ==
    IF a = <<>> THEN FALSE
    ELSE IF Head(a) # Head(b) THEN CellLt(Head(a), Head(b))
    ELSE KeyLt(Tail(a), Tail(b))

RECURSIVE SortKeys(_)
SortKeys(keys) ==
    IF keys = {} THEN <<>>
    ELSE LET first == CHOOSE k \in keys : \A o \in keys \ {k} : KeyLt(k, o)
         IN  <<first>> \o SortKeys(keys \ {first})

\* Body(value), with the value worked out once.
Bind(value, Body(_)) == CHOOSE r \in {Body(v) : v \in {value}} : TRUE

\* The key of row i under the key columns.
KeyOf(keycols, i) == [j \in DOMAIN keycols |-> keycols[j][i]]

\* groupby(keys): the groups in key order, each with the rows it holds; a row
\* with a missing key is in no group.
groupby(keycols) ==
    LET rows == DOMAIN keycols[1]
        keyed == {i \in rows : \A j \in DOMAIN keycols : ~IsMissing(keycols[j][i])}
    IN  Bind(SortKeys({KeyOf(keycols, i) : i \in keyed}), LAMBDA keys :
            [g \in DOMAIN keys |->
                [key |-> keys[g],
                 rows |-> [i \in rows |-> i \in keyed /\ KeyOf(keycols, i) = keys[g]]]])

\* .sum() of a group: the missing values are skipped.
GroupSum(values, rows) ==
    FSumSeq(SelectSeq(Mask(values, rows), LAMBDA c : ~IsMissing(c)))

\* groupby(keys)[value].sum().reset_index()
groupby_sum(keycols, values) ==
    Bind(groupby(keycols), LAMBDA groups :
        [g \in DOMAIN groups |->
            [key |-> groups[g].key, value |-> PyFloat(GroupSum(values, groups[g].rows))]])

\* groupby(keys).size()
groupby_size(keycols) ==
    Bind(groupby(keycols), LAMBDA groups :
        [g \in DOMAIN groups |->
            [key |-> groups[g].key,
             value |-> PyInt(Cardinality({i \in DOMAIN groups[g].rows : groups[g].rows[i]}))]])

\* The grouped values spread over index x columns, fill_value where a pair has
\* no group.
Spread(grouped, index, columns, fill_value) ==
    LET At(r, c) == {g \in DOMAIN grouped : grouped[g].key = <<index[r], columns[c]>>}
    IN  [index |-> index,
         columns |-> columns,
         values |-> [c \in DOMAIN columns |->
                        [r \in DOMAIN index |->
                            IF At(r, c) = {} THEN fill_value
                            ELSE grouped[CHOOSE g \in At(r, c) : TRUE].value]]]

\* The sorted distinct values at position j of the keys.
Level(grouped, j) ==
    Bind(SortKeys({<<grouped[g].key[j]>> : g \in DOMAIN grouped}), LAMBDA keys :
        [i \in DOMAIN keys |-> keys[i][1]])

unstack(grouped, fill_value) ==
    Bind(<<grouped, Level(grouped, 1), Level(grouped, 2)>>, LAMBDA a :
        Spread(a[1], a[2], a[3], fill_value))

\* df.pivot_table(index, columns, values, aggfunc='sum', fill_value=0)
pivot_table_sum(index, columns, values) ==
    unstack(groupby_sum(<<index, columns>>, values), PyFloat(Int2F(0)))

\* df.pivot_table(index, columns, aggfunc='size', fill_value=0)
pivot_table_size(index, columns) ==
    unstack(groupby_size(<<index, columns>>), PyInt(0))

(***************************************************************************)
(* dataset_visualizer.get_line_data                                        *)
(***************************************************************************)
\* One point per row of the grouped frame; iterrows hands out built-in floats.
LinePoint(row) ==
    [date |-> isoformat(row.key[1]), value |-> _make_serializable(row.value)]

LinePoints(grouped) ==
    Bind(grouped, LAMBDA rows : [i \in DOMAIN rows |-> LinePoint(rows[i])])

\* One series per group, in the order the groups first appear.
LineSeries(grouped) ==
    Bind(Distinct([i \in DOMAIN grouped |-> grouped[i].key[2]], <<>>), LAMBDA groups :
        [g \in DOMAIN groups |->
            [name |-> AsStr(groups[g]),
             data |-> LinePoints(SelectSeq(grouped, LAMBDA r : r.key[2] = groups[g]))]])

\* The dates, the values and, when there is one, the groups of the rows that
\* have both a date and a value.
LineFrame(t, date_col, value_col, group_col) ==
    LET dates == to_datetime(Series(t, date_col)).cells
        values == Series(t, value_col).cells
        keep == [i \in DOMAIN dates |-> ~IsMissing(dates[i]) /\ ~IsMissing(values[i])]
    IN  Bind(keep, LAMBDA k :
            [dates |-> Mask(dates, k), values |-> Mask(values, k),
             groups |-> IF HasColumn(t, group_col) THEN Mask(Series(t, group_col).cells, k)
                        ELSE <<>>])

get_line_data(t, date_col, value_col, group_col, filter_column, filter_operator, filter_value) ==
    LET f == apply_filter(t, filter_column, filter_operator, filter_value)
    IN  IF f.raised THEN f
        ELSE IF ~HasColumn(f.value, date_col) THEN ColumnNotFound(date_col)
        ELSE IF ~HasColumn(f.value, value_col) THEN ColumnNotFound(value_col)
        ELSE Bind(LineFrame(f.value, date_col, value_col, group_col), LAMBDA df_copy :
                 IF Truthy(group_col) /\ HasColumn(f.value, group_col)
                 THEN Ok([date_column |-> date_col, value_column |-> value_col,
                          series |-> Bind(groupby_sum(<<df_copy.dates, df_copy.groups>>,
                                                      df_copy.values),
                                          LAMBDA grouped : LineSeries(grouped))])
                 ELSE Ok([date_column |-> date_col, value_column |-> value_col,
                          data |-> LinePoints(groupby_sum(<<df_copy.dates>>,
                                                           df_copy.values))]))

(***************************************************************************)
(* dataset_visualizer.get_area_data                                        *)
(***************************************************************************)
get_area_data(t, date_col, value_col, stack_col, filter_column, filter_operator, filter_value) ==
    LET f == apply_filter(t, filter_column, filter_operator, filter_value)
    IN  IF f.raised THEN f
        ELSE IF ~HasColumn(f.value, date_col) THEN ColumnNotFound(date_col)
        ELSE IF ~HasColumn(f.value, value_col) THEN ColumnNotFound(value_col)
        ELSE IF ~HasColumn(f.value, stack_col) THEN ColumnNotFound(stack_col)
        ELSE Bind(Bind(LineFrame(f.value, date_col, value_col, stack_col), LAMBDA df_copy :
                      pivot_table_sum(df_copy.dates, df_copy.groups, df_copy.values)),
                  LAMBDA pivot :
                 Ok([date_column |-> date_col, value_column |-> value_col,
                     stack_column |-> stack_col,
                     dates |-> [r \in DOMAIN pivot.index |-> isoformat(pivot.index[r])],
                     series |-> [c \in DOMAIN pivot.columns |->
                                    [name |-> AsStr(pivot.columns[c]),
                                     values |-> Serialize(pivot.values[c])]]]))

(***************************************************************************)
(* dataset_visualizer.get_treemap_data                                     *)
(***************************************************************************)
RECURSIVE FirstMissing(_, _)
\* The first name of the list that is not a column of the table, None if all are.
FirstMissing(t, names) ==
    IF names = <<>> THEN None
    ELSE IF ~HasColumn(t, Head(names)) THEN Head(names)
    ELSE FirstMissing(t, Tail(names))

get_treemap_data(t, group_cols, value_col, filter_column, filter_operator, filter_value) ==
    LET f == apply_filter(t, filter_column, filter_operator, filter_value)
    IN  IF f.raised THEN f
        ELSE IF FirstMissing(f.value, group_cols) # None
             THEN ColumnNotFound(FirstMissing(f.value, group_cols))
        ELSE IF ~HasColumn(f.value, value_col) THEN ColumnNotFound(value_col)
        ELSE Bind(groupby_sum([j \in DOMAIN group_cols |->
                                  Series(f.value, group_cols[j]).cells],
                              Series(f.value, value_col).cells),
                  LAMBDA grouped :
                 Ok([group_columns |-> group_cols, value_column |-> value_col,
                     nodes |-> [i \in DOMAIN grouped |->
                                   [path |-> [j \in DOMAIN group_cols |->
                                                 AsStr(grouped[i].key[j])],
                                    value |-> _make_serializable(grouped[i].value)]]]))

(***************************************************************************)
(* dataset_visualizer.get_stacked_bar                                      *)
(***************************************************************************)
get_stacked_bar(t, category_col, stack_col, value_col, filter_column, filter_operator, filter_value) ==
    LET f == apply_filter(t, filter_column, filter_operator, filter_value)
    IN  IF f.raised THEN f
        ELSE IF ~HasColumn(f.value, category_col) THEN ColumnNotFound(category_col)
        ELSE IF ~HasColumn(f.value, stack_col) THEN ColumnNotFound(stack_col)
        ELSE Bind(IF Truthy(value_col) /\ HasColumn(f.value, value_col)
                  THEN pivot_table_sum(Series(f.value, category_col).cells,
                                       Series(f.value, stack_col).cells,
                                       Series(f.value, value_col).cells)
                  ELSE pivot_table_size(Series(f.value, category_col).cells,
                                        Series(f.value, stack_col).cells),
                  LAMBDA pivot :
                 Ok([category_column |-> category_col, stack_column |-> stack_col,
                     value_column |-> value_col,
                     categories |-> [r \in DOMAIN pivot.index |-> AsStr(pivot.index[r])],
                     stacks |-> [c \in DOMAIN pivot.columns |-> AsStr(pivot.columns[c])],
                     data |-> [c \in DOMAIN pivot.columns |->
                                  [name |-> AsStr(pivot.columns[c]),
                                   values |-> Serialize(pivot.values[c])]]]))

(***************************************************************************)
(* Scores.  quick_analyzer._compute_ml_readiness and                       *)
(* gemini_analyzer.compute_data_quality_score, on exact rationals.         *)
(***************************************************************************)
\* Mutant of FMin: the penalty without its cap.
FMinUncapped(a, b) == a

\* min(a, b)
FMin(a, b) == IF FLt(b, a) THEN b ELSE a

\* Python's round(x) of a finite x: to the nearest integer, a tie to the even one.
PyRound(x) ==
    LET q == FloorDiv(x.n, x.d)
        twice == 2 * (x.n - q * x.d)
    IN  IF twice < x.d THEN q
        ELSE IF twice > x.d THEN q + 1
        ELSE IF q % 2 = 0 THEN q ELSE q + 1

\* Mutant of ClampRound: the score is clamped but not rounded.
ClampOnly(score) ==
    PyFloat(IF FLt(score, Int2F(0)) THEN Int2F(0)
            ELSE IF FGt(score, Int2F(100)) THEN Int2F(100) ELSE score)

\* max(0, min(100, round(score)))
ClampRound(score) == PyInt(Max2(0, Min2(100, PyRound(score))))

RECURSIVE Gcd(_, _)
Gcd(a, b) == IF b = 0 THEN a ELSE Gcd(b, a % b)

\* The same finite number in lowest terms.
Reduce(x) == LET g == Gcd(Abs(x.n), x.d) IN Fin(x.n \div g, x.d \div g)

RECURSIVE Sum(_)
Sum(xs) == IF xs = <<>> THEN Int2F(0) ELSE Reduce(FAdd(Head(xs), Sum(Tail(xs))))

\* Mutant of Avg: the sum, not divided by the number of columns.
SumNotAvg(xs) == Sum(xs)

\* sum(xs) / len(xs)
Avg(xs) == Reduce(FDivFin(Sum(xs), Int2F(Len(xs))))

\* (duplicate_rows / total_rows) * 100
DupPercentage(duplicate_rows, total_rows) == Reduce(Fin(duplicate_rows * 100, total_rows))

\* score -= penalty
Dec(score, penalty) == Reduce(FSub(score, Reduce(penalty)))

_compute_ml_readiness(missing_percentages, duplicate_rows, total_rows, outlier_percentages) ==
    LET s1 == IF missing_percentages # <<>>
              THEN Dec(Int2F(100), FMin(FMul(Avg(missing_percentages), Fin(5, 10)), Int2F(30)))
              ELSE Int2F(100)
        s2 == IF total_rows > 0
              THEN Dec(s1, FMin(FMul(DupPercentage(duplicate_rows, total_rows), Fin(3, 10)),
                                 Int2F(15)))
              ELSE s1
        s3 == IF outlier_percentages # <<>>
              THEN Dec(s2, FMin(FMul(Avg(outlier_percentages), Fin(2, 10)), Int2F(10)))
              ELSE s2
        score == ClampRound(s3)
    IN  [readiness_score |-> score,
         readiness_level |-> IF FGe(score.num, Int2F(80)) THEN "High"
                             ELSE IF FGe(score.num, Int2F(50)) THEN "Moderate"
                             ELSE "Low"]

\* [c["column"] for c in entries if test(c)]
ColumnsWhere(entries, Test(_)) ==
    LET hit == SelectSeq(entries, Test) IN [i \in DOMAIN hit |-> hit[i].column]

\* Mutant of Issue: the entry names no column.
IssueWithoutColumns(type, severity, count, affected) ==
    [type |-> type, severity |-> severity, count |-> count, affected_columns |-> <<>>]

Issue(type, severity, count, affected) ==
    [type |-> type, severity |-> severity, count |-> count, affected_columns |-> affected]

compute_data_quality_score(missing_data, duplicate_rows, total_rows, outlier_detection) ==
    LET high_missing_cols == missing_data.columns_above_30_percent_missing
        moderate_missing ==
            ColumnsWhere(missing_data.columns,
                         LAMBDA c : /\ FLt(Int2F(10), c.missing_percentage)
                                    /\ FLe(c.missing_percentage, Int2F(30)))
        dup_pct == DupPercentage(duplicate_rows, total_rows)
        duplicates == total_rows > 0 /\ FGt(dup_pct, Int2F(5))
        high_outlier_cols ==
            ColumnsWhere(outlier_detection, LAMBDA o : FGt(o.outlier_percentage, Int2F(5)))
        s1 == IF high_missing_cols # <<>>
              THEN Dec(Int2F(100), Int2F(Min2(Len(high_missing_cols) * 10, 30)))
              ELSE Int2F(100)
        s2 == IF moderate_missing # <<>>
              THEN Dec(s1, Int2F(Min2(Len(moderate_missing) * 3, 15)))
              ELSE s1
        s3 == IF duplicates THEN Dec(s2, FMin(dup_pct, Int2F(20))) ELSE s2
        s4 == IF high_outlier_cols # <<>>
              THEN Dec(s3, Int2F(Min2(Len(high_outlier_cols) * 2, 10)))
              ELSE s3
        score == ClampRound(s4)
    IN  [overall_score |-> score,
         level |-> IF FGe(score.num, Int2F(80)) THEN "Good"
                   ELSE IF FGe(score.num, Int2F(60)) THEN "Fair"
                   ELSE IF FGe(score.num, Int2F(40)) THEN "Needs Work"
                   ELSE "Poor",
         issues |->
            (IF high_missing_cols # <<>>
             THEN <<Issue("missing_data",
                          IF Len(high_missing_cols) > 2 THEN "critical" ELSE "warning",
                          Len(high_missing_cols), high_missing_cols)>>
             ELSE <<>>)
            \o (IF moderate_missing # <<>>
                THEN <<Issue("missing_data", "info", Len(moderate_missing), moderate_missing)>>
                ELSE <<>>)
            \o (IF duplicates
                THEN <<Issue("duplicates",
                             IF FLe(dup_pct, Int2F(20)) THEN "warning" ELSE "critical",
                             duplicate_rows, <<>>)>>
                ELSE <<>>)
            \o (IF high_outlier_cols # <<>>
                THEN <<Issue("outliers", "info", Len(high_outlier_cols), high_outlier_cols)>>
                ELSE <<>>)]

(***************************************************************************)
(* compute_scatter_recommendations (gemini_analyzer.py).  A correlation    *)
(* entry holds column_a, column_b and correlation, a float or None.        *)
(***************************************************************************)
\* abs(x) of a finite x
FAbs(x) == IF x.n < 0 THEN FNeg(x) ELSE x

\* round(x, 4) of a finite x
Round4(x) == Reduce(Fin(PyRound(Fin(x.n * 10000, x.d)), 10000))

\* The chain of comparisons of lines 193-204.
relationship(corr_value) ==
    IF FGt(corr_value, Fin(7, 10)) THEN "Strong positive correlation"
    ELSE IF FGt(corr_value, Fin(3, 10)) THEN "Moderate positive correlation"
    ELSE IF FGt(corr_value, Fin(1, 10)) THEN "Weak positive correlation"
    ELSE IF FLt(corr_value, Fin(-7, 10)) THEN "Strong negative correlation"
    ELSE IF FLt(corr_value, Fin(-3, 10)) THEN "Moderate negative correlation"
    ELSE "Weak negative correlation"

\* abs(x["correlation"] or 0)
AbsOrZero(v) == IF v.ty = "NoneType" THEN Int2F(0) ELSE FAbs(v.num)

\* list.sort(key=abs of the correlation, reverse=True): stable, largest first.
RECURSIVE InsertByAbs(_, _)
InsertByAbs(s, e) ==
    IF s = <<>> THEN <<e>>
    ELSE IF FGe(AbsOrZero(Head(s).correlation), AbsOrZero(e.correlation))
         THEN <<Head(s)>> \o InsertByAbs(Tail(s), e)
    ELSE <<e>> \o s

\* Mutant of SortByAbs: the list is left as it was built.
NotSortedByAbs(todo, done) == done \o todo

RECURSIVE SortByAbs(_, _)
SortByAbs(todo, done) ==
    IF todo = <<>> THEN done ELSE SortByAbs(Tail(todo), InsertByAbs(done, Head(todo)))

\* itertools.combinations(cols, 2), in its order.
RECURSIVE combinations(_)
combinations(cols) ==
    IF Len(cols) < 2 THEN <<>>
    ELSE [j \in 1..(Len(cols) - 1) |-> <<cols[1], cols[j + 1]>>] \o combinations(Tail(cols))

\* Mutant of Slice: the list is not cut.
Unsliced(s, n) == s

\* s[:n]
Slice(s, n) == SubSeq(s, 1, Min2(n, Len(s)))

Qualifies(corr) ==
    /\ corr.correlation.ty # "NoneType"
    /\ FGe(FAbs(corr.correlation.num), Fin(1, 10))

ExploreLabel == "Explore relationship"

compute_scatter_recommendations(numeric_columns, correlations) ==
    LET kept == SelectSeq(correlations, Qualifies)
        recommendations ==
            SortByAbs([i \in DOMAIN kept |->
                          [x |-> kept[i].column_a, y |-> kept[i].column_b,
                           correlation |-> PyFloat(Round4(kept[i].correlation.num)),
                           insight |-> relationship(kept[i].correlation.num)]], <<>>)
        pairs == Slice(combinations(Slice(numeric_columns, 4)), 5)
    IN  Slice(IF Len(recommendations) = 0 /\ Len(numeric_columns) >= 2
              THEN [i \in DOMAIN pairs |->
                       [x |-> pairs[i][1], y |-> pairs[i][2],
                        correlation |-> PyFloat(Int2F(0)), insight |-> ExploreLabel]]
              ELSE recommendations, 5)

(***************************************************************************)
(* Type inference: _detect_column_type, the same text in quick_analyzer.py *)
(* and in dataset_profiler.py.                                             *)
(***************************************************************************)
\* series.dropna().head(100)
SampleSize == 100

\* pd.to_datetime(values) with errors='raise': a ValueError at the first text
\* that is no date.
to_datetime_raises(cells) ==
    \E i \in DOMAIN cells : cells[i].k = "str" /\ ToDatetimeCell(cells[i]) = NaT

_detect_column_type(series) ==
    IF is_numeric_dtype(series) THEN "numeric"
    ELSE IF series.dtype = "datetime64[ns]" THEN "datetime"
    ELSE IF series.dtype \in {"category", "object"} THEN
        (IF /\ series.dtype = "object"
            /\ ~to_datetime_raises(head(dropna(series).cells, SampleSize))
         THEN "datetime"
         ELSE "categorical")
    ELSE "unknown"

(***************************************************************************)
(* dataset_profiler.profile_dataframe.  A sub-step gives an outcome, a     *)
(* value or an exception; an exception no handler catches ends the call.   *)
(***************************************************************************)
Failures(outcomes) == {i \in DOMAIN outcomes : outcomes[i].raised}

\* The exception that ends the call: the one raised first.
FirstFailure(outcomes) ==
    outcomes[CHOOSE i \in Failures(outcomes) : \A j \in Failures(outcomes) : i <= j]

Values(outcomes) == [i \in DOMAIN outcomes |-> outcomes[i].value]

\* round(x, 2) of a finite x
Round2(x) == Reduce(Fin(PyRound(Fin(x.n * 100, x.d)), 100))

\* int(series.isna().sum())
MissingCount(series) == Cardinality({i \in DOMAIN series.cells : IsMissing(series.cells[i])})

\* Mutant of missing_percentage: the division is made whatever the row count.
missing_percentage_unguarded(missing_count, row_count) ==
    IF row_count = 0 THEN Raise("ZeroDivisionError: division by zero", "")
    ELSE Ok(Round2(Fin(missing_count * 100, row_count)))

\* round((missing_count / row_count) * 100, 2) if row_count > 0 else 0.0
missing_percentage(missing_count, row_count) ==
    IF row_count > 0 THEN Ok(Round2(Fin(missing_count * 100, row_count)))
    ELSE Ok(Int2F(0))

\* Series.mean(), .min(), .max(): of the present values, NaN when there is none.
series_mean(series) ==
    LET cells == dropna(series).cells IN IF cells = <<>> THEN NaN ELSE mean(cells)

series_min(series) ==
    LET cells == dropna(series).cells IN IF cells = <<>> THEN NaN ELSE FMinSeq(cells)

series_max(series) ==
    LET cells == dropna(series).cells IN IF cells = <<>> THEN NaN ELSE FMaxSeq(cells)

\* Series.std(): the root of the sample variance of the present values, which
\* are whole numbers here; NaN for fewer than two values or a value not finite.
series_std(series) ==
    LET cells == dropna(series).cells
        n == Len(cells)
        sum == SumSeq([i \in DOMAIN cells |-> cells[i].n])
        squares == SumSeq([i \in DOMAIN cells |-> cells[i].n * cells[i].n])
    IN  IF n < 2 \/ \E i \in DOMAIN cells : ~IsFinite(cells[i]) THEN NaN
        ELSE Root(n * squares - sum * sum, n * (n - 1))

\* The bins of lines 70-77.
HistogramBinList(h) ==
    [i \in DOMAIN h.counts |->
        [bin_start |-> _make_serializable(NpFloat(h.bin_edges[i])),
         bin_end |-> _make_serializable(NpFloat(h.bin_edges[i + 1])),
         count |-> PyInt(h.counts[i])]]

\* Mutant of profile_histogram: the try block has no except clause.
profile_histogram_uncaught(series) ==
    LET h == np_histogram(dropna(series).cells, 10)
    IN  IF h.raised THEN h ELSE Ok(HistogramBinList(h.value))

\* Lines 69-79: the histogram, or [] when np.histogram raises.
profile_histogram(series) ==
    LET h == np_histogram(dropna(series).cells, 10)
    IN  IF h.raised THEN Ok(<<>>) ELSE Ok(HistogramBinList(h.value))

\* Lines 81-88; the outcome is that of the histogram step.
NumericStats(series) ==
    LET histogram == profile_histogram(series)
    IN  IF histogram.raised THEN histogram
        ELSE Ok([column |-> series.name,
                 mean |-> _make_serializable(NpFloat(series_mean(series))),
                 std |-> _make_serializable(NpFloat(series_std(series))),
                 min |-> _make_serializable(NpFloat(series_min(series))),
                 max |-> _make_serializable(NpFloat(series_max(series))),
                 histogram |-> histogram.value])

\* Lines 93-107: value_counts().head(10) and nunique().
CategoryStats(series) ==
    LET top == head(value_counts(series), 10)
    IN  Ok([column |-> series.name,
            unique_count |-> PyInt(Len(value_counts(series))),
            top_values |-> [i \in DOMAIN top |->
                               [value |-> AsStr(top[i].value), count |-> PyInt(top[i].count)]]])

\* Lines 53-64.
ColumnInfo(series, row_count) ==
    LET pct == missing_percentage(MissingCount(series), row_count)
    IN  IF pct.raised THEN pct
        ELSE Ok([name |-> series.name,
                 detected_type |-> _detect_column_type(series),
                 missing_count |-> PyInt(MissingCount(series)),
                 missing_percentage |-> pct.value])

ColumnsOfType(t, type) == SelectSeq(t.cols, LAMBDA c : _detect_column_type(c) = type)

\* df.head(5).replace({np.nan: None}).to_dict(orient="records"): a row is its
\* cells in column order, None for a missing one.
Samples(t) ==
    [r \in 1..Min2(5, NRows(t)) |->
        [c \in DOMAIN t.cols |->
            IF IsMissing(t.cols[c].cells[r]) THEN Null ELSE t.cols[c].cells[r]]]

\* Lines 52-109: the outcome of every step, column by column.
ProfileSteps(t) ==
    LET numeric == ColumnsOfType(t, "numeric")
        categorical == ColumnsOfType(t, "categorical")
    IN  [columns |-> [i \in DOMAIN t.cols |-> ColumnInfo(t.cols[i], NRows(t))],
         numeric_stats |-> [i \in DOMAIN numeric |-> NumericStats(numeric[i])],
         category_stats |-> [i \in DOMAIN categorical |-> CategoryStats(categorical[i])]]

profile_dataframe(t) ==
    Bind(ProfileSteps(t), LAMBDA s :
        LET steps == s.columns \o s.numeric_stats \o s.category_stats
        IN  IF Failures(steps) # {} THEN FirstFailure(steps)
            ELSE Ok([shape |-> [row_count |-> NRows(t), column_count |-> Len(t.cols)],
                     columns |-> Values(s.columns),
                     numeric_stats |-> Values(s.numeric_stats),
                     category_stats |-> Values(s.category_stats),
                     samples |-> Samples(t)]))

(***************************************************************************)
(* quick_analyzer.quick_analyze_dataframe                                  *)
(***************************************************************************)
\* Mutant of Caught: the try block has no except clause.
NotCaught(outcome, default) == outcome

\* try: ... except Exception: the default takes the place of the exception.
Caught(outcome, default) == IF outcome.raised THEN Ok(default) ELSE outcome

Row(t, r) == [c \in DOMAIN t.cols |-> t.cols[c].cells[r]]

\* int(df.duplicated().sum()): the rows equal to an earlier row
duplicated(t) ==
    Cardinality({r \in 1..NRows(t) : \E q \in 1..(r - 1) : Row(t, q) = Row(t, r)})

Names(cols) == [i \in DOMAIN cols |-> cols[i].name]

\* Lines 138-156.
MissingInsights(t) ==
    LET pcts == [i \in DOMAIN t.cols |->
                    missing_percentage(MissingCount(t.cols[i]), NRows(t))]
        columns == [i \in DOMAIN t.cols |->
                       [column |-> t.cols[i].name,
                        missing_count |-> PyInt(MissingCount(t.cols[i])),
                        missing_percentage |-> pcts[i].value]]
    IN  IF Failures(pcts) # {} THEN FirstFailure(pcts)
        ELSE Ok([columns |-> columns,
                 columns_above_30_percent_missing |->
                     ColumnsWhere(columns, LAMBDA c : FGt(c.missing_percentage, Int2F(30)))])

\* Mutant of _compute_outliers_iqr: a value on a fence counts as an outlier.
_compute_outliers_iqr_closed(series) ==
    LET clean == dropna(series).cells
        q1 == quantile(clean, 1, 4)
        q3 == quantile(clean, 3, 4)
        outlier_count ==
            Len(SelectSeq(clean, LAMBDA c : \/ FLe(c, lower_bound(q1, q3))
                                            \/ FGe(c, upper_bound(q1, q3))))
    IN  IF Len(clean) = 0 THEN [outlier_count |-> 0, outlier_percentage |-> Int2F(0)]
        ELSE [outlier_count |-> outlier_count,
              outlier_percentage |-> Round2(Fin(outlier_count * 100, Len(clean)))]

_compute_outliers_iqr(series) ==
    LET clean == dropna(series).cells
        q1 == quantile(clean, 1, 4)
        q3 == quantile(clean, 3, 4)
        outlier_count == Len(IqrOutliers(clean, q1, q3))
    IN  IF Len(clean) = 0 THEN [outlier_count |-> 0, outlier_percentage |-> Int2F(0)]
        ELSE [outlier_count |-> outlier_count,
              outlier_percentage |-> Round2(Fin(outlier_count * 100, Len(clean)))]

\* Lines 207-220.
OutlierEntries(numeric) ==
    [i \in DOMAIN numeric |->
        [column |-> numeric[i].name,
         outlier_count |-> PyInt(_compute_outliers_iqr(numeric[i]).outlier_count),
         outlier_percentage |-> _compute_outliers_iqr(numeric[i]).outlier_percentage]]

Pow10(k) == 10 ^ k

\* floor(num * 10^k / den) for 0 <= num <= den, by long division
RECURSIVE Scaled(_, _, _)
Scaled(num, den, k) ==
    IF k = 0 THEN num \div den
    ELSE (num \div den) * Pow10(k) + Scaled((num % den) * 10, den, k - 1)

\* The largest m in lo..hi with m * m <= q.
RECURSIVE SqrtFloor(_, _, _)
SqrtFloor(q, lo, hi) ==
    IF lo = hi THEN lo
    ELSE LET mid == (lo + hi + 1) \div 2
         IN  IF mid * mid <= q THEN SqrtFloor(q, mid, hi) ELSE SqrtFloor(q, lo, mid - 1)

\* round(r, 4) of a correlation coefficient r, |r| <= 1
RoundCorr4(r) ==
    LET q == Scaled(Abs(r.n), r.d, 8)
        m == SqrtFloor(q, 0, 10000)
    IN  Reduce(Fin(Sign(r.n) * (IF (2 * m + 1) * (2 * m + 1) <= 4 * q THEN m + 1 ELSE m),
                   10000))

\* Lines 185-202: the upper triangle of numeric_df.corr() without its NaN
\* entries, sorted by absolute value.
CorrelationRanking(numeric) ==
    LET pairs == SelectSeq(combinations([i \in DOMAIN numeric |-> i]),
                           LAMBDA p : ~IsNaN(Pearson(numeric[p[1]].cells, numeric[p[2]].cells)))
    IN  SortByAbs([i \in DOMAIN pairs |->
                      [column_a |-> numeric[pairs[i][1]].name,
                       column_b |-> numeric[pairs[i][2]].name,
                       correlation |->
                           _make_serializable(NpFloat(RoundCorr4(
                               Pearson(numeric[pairs[i][1]].cells,
                                       numeric[pairs[i][2]].cells))))]], <<>>)

\* The charts that were computed, in order.
Computed(outcomes) ==
    SelectSeq(outcomes, LAMBDA o : o.raised \/ "column" \in DOMAIN o.value)

Entry(key, value) == [key |-> key, value |-> value]

\* Lines 109-260: what each sub-step leaves behind, an outcome for the ones
\* that can raise.
AnalysisSteps(t, numeric, categorical) ==
    [duplicate_rows |-> duplicated(t),
     missing |-> MissingInsights(t),
     primary_histogram |->
         IF numeric = <<>> THEN <<>>
         ELSE <<Caught(get_histogram(t, numeric[1].name, 10, None, None, NoValue), Null)>>,
     primary_bar |->
         IF categorical = <<>> THEN <<>>
         ELSE <<Caught(get_bar_counts(t, categorical[1].name, None, None, NoValue), Null)>>,
     all_correlations |-> IF Len(numeric) >= 2 THEN CorrelationRanking(numeric) ELSE <<>>,
     outlier_detection |-> OutlierEntries(numeric),
     histograms |->
         Computed([i \in DOMAIN Slice(numeric, 3) |->
             Caught(get_histogram(t, numeric[i].name, 10, None, None, NoValue), Null)]),
     bars |->
         Computed([i \in DOMAIN Slice(categorical, 3) |->
             Caught(get_bar_counts(t, categorical[i].name, None, None, NoValue), Null)]),
     heatmap |->
         IF Len(numeric) >= 2 THEN Caught(get_correlation(t, None, None, NoValue), Null)
         ELSE Ok(Null)]

\* Lines 223-289: the scores, the recommendations and the report, or the
\* exception of the first sub-step that raised.
AnalysisReport(t, numeric, categorical, datetime, s) ==
    LET steps == <<s.missing>> \o s.primary_histogram \o s.primary_bar \o s.histograms
                     \o s.bars \o <<s.heatmap>>
    IN  IF Failures(steps) # {} THEN FirstFailure(steps)
        ELSE Ok([dataset_overview |->
                     [row_count |-> NRows(t), column_count |-> Len(t.cols),
                      numeric_columns |-> Names(numeric),
                      categorical_columns |-> Names(categorical),
                      datetime_columns |-> Names(datetime),
                      duplicate_rows |-> s.duplicate_rows],
                 missing_data_insights |-> s.missing.value,
                 key_distributions |->
                     [i \in DOMAIN s.primary_histogram |->
                         Entry("primary_numeric_histogram", s.primary_histogram[i].value)]
                     \o [i \in DOMAIN s.primary_bar |->
                            Entry("primary_categorical_bar", s.primary_bar[i].value)],
                 strongest_correlations |-> Slice(s.all_correlations, 5),
                 outlier_detection |-> s.outlier_detection,
                 ml_readiness |->
                     _compute_ml_readiness(
                         [i \in DOMAIN s.missing.value.columns |->
                             s.missing.value.columns[i].missing_percentage],
                         s.duplicate_rows, NRows(t),
                         [i \in DOMAIN s.outlier_detection |->
                             s.outlier_detection[i].outlier_percentage]),
                 chart_payloads |-> [histograms |-> Values(s.histograms),
                                     bars |-> Values(s.bars),
                                     correlation_heatmap |-> s.heatmap.value],
                 scatter_recommendations |->
                     compute_scatter_recommendations(Names(numeric), s.all_correlations),
                 data_quality |->
                     compute_data_quality_score(s.missing.value, s.duplicate_rows, NRows(t),
                                                s.outlier_detection)])

quick_analyze_dataframe(t) ==
    Bind(<<ColumnsOfType(t, "numeric"), ColumnsOfType(t, "categorical"),
           ColumnsOfType(t, "datetime")>>, LAMBDA columns :
        Bind(AnalysisSteps(t, columns[1], columns[2]), LAMBDA s :
            AnalysisReport(t, columns[1], columns[2], columns[3], s)))

(***************************************************************************)
(* Tables and requests the model draws from.                               *)
(***************************************************************************)
RowIndex(n) == [i \in 1..n |-> i]

NumCells == {NaN, Int2F(0), Int2F(1), Int2F(5), Inf(1), Inf(-1)}
TextCells == {NaN, Str(<<"a">>), Str(<<"b">>), Str(<<"1">>), Str(<<"5">>)}

\* A table with the single column "x", stored as float64 or as object.
SingleColumnTables ==
    {DataFrame(RowIndex(Len(cells)), <<Column("x", "float64", cells)>>) :
        cells \in SeqsUpTo(NumCells, MaxRows)}
    \cup
    {DataFrame(RowIndex(Len(cells)), <<Column("x", "object", cells)>>) :
        cells \in SeqsUpTo(TextCells, MaxRows)}

Filter(column, operator, value) ==
    [column |-> column, operator |-> operator, value |-> value]

NoFilter == Filter(None, None, NoValue)

\* No filter, or one that keeps the rows whose x is above 0 ("0" as text).
ColumnFilters == {NoFilter, Filter("x", ">", <<"0">>)}

Filtered(t, flt) == apply_filter(t, flt.column, flt.operator, flt.value).value

(***************************************************************************)
(* Calls on one column: histogram, box plot, pie and bar chart.            *)
(***************************************************************************)
InitColumn ==
    /\ df \in SingleColumnTables
    /\ op = "none"
    /\ args = [column |-> None, filter |-> NoFilter]
    /\ result = Ok(<<>>)
    /\ NoServer

Histogram ==
    /\ op = "none"
    /\ \E bins \in 1..MaxBins, flt \in ColumnFilters :
          /\ op' = "get_histogram"
          /\ args' = [column |-> "x", bins |-> bins, filter |-> flt]
          /\ result' = get_histogram(df, "x", bins, flt.column, flt.operator, flt.value)
    /\ UNCHANGED <<df, server>>

Boxplot ==
    /\ op = "none"
    /\ \E flt \in ColumnFilters :
          /\ op' = "get_boxplot"
          /\ args' = [column |-> "x", filter |-> flt]
          /\ result' = get_boxplot(df, "x", flt.column, flt.operator, flt.value)
    /\ UNCHANGED <<df, server>>

Pie ==
    /\ op = "none"
    /\ \E limit \in 1..MaxLimit, flt \in ColumnFilters :
          /\ op' = "get_pie_data"
          /\ args' = [column |-> "x", limit |-> limit, filter |-> flt]
          /\ result' = get_pie_data(df, "x", limit, flt.column, flt.operator, flt.value)
    /\ UNCHANGED <<df, server>>

Bar ==
    /\ op = "none"
    /\ \E flt \in ColumnFilters :
          /\ op' = "get_bar_counts"
          /\ args' = [column |-> "x", filter |-> flt]
          /\ result' = get_bar_counts(df, "x", flt.column, flt.operator, flt.value)
    /\ UNCHANGED <<df, server>>

NextColumn == Histogram \/ Boxplot \/ Pie \/ Bar

SpecColumn == InitColumn /\ [][NextColumn]_vars

(***************************************************************************)
(* What the claims speak of: the column the call selected, after the       *)
(* filter, and its present values.                                         *)
(***************************************************************************)
Selected == Series(Filtered(df, args.filter), args.column)

\* The non-missing cells of the selected column.
Present == SelectSeq(Selected.cells, LAMBDA c : ~IsMissing(c))

\* The numeric values the selected column holds: its present cells, read as
\* numbers when they are text.
NumericValues == SelectSeq([i \in DOMAIN Present |-> CoerceCell(Present[i])],
                           LAMBDA c : ~IsMissing(c))

AllFinite(cells) == \A i \in DOMAIN cells : IsFinite(cells[i])

\* The integer a payload count holds.
IntOf(v) == v.num.n

PayloadSum(values) == SumSeq([i \in DOMAIN values |-> IntOf(values[i])])
Nums(values) == [i \in DOMAIN values |-> values[i].num]

(***************************************************************************)
(* C1.  Histogram shape.                                                   *)
(***************************************************************************)
HistogramCall == op = "get_histogram" /\ Selected.dtype = "float64"

\* b+1 edges, b counts, the counts sum to n, and count j is the number of
\* present values in [edge j, edge j+1), the last bin closed on the right.
HistogramBins(values, b) ==
    /\ ~result.raised
    /\ Len(result.value.bins) = b + 1
    /\ Len(result.value.counts) = b
    /\ PayloadSum(result.value.counts) = Len(values)
    /\ \A j \in 1..b :
          IntOf(result.value.counts[j]) =
              Cardinality({i \in DOMAIN values :
                  /\ FLe(result.value.bins[j].num, values[i])
                  /\ \/ FLt(values[i], result.value.bins[j + 1].num)
                     \/ j = b /\ FEq(values[i], result.value.bins[j + 1].num)})

\* C1 as stated: for any numeric column with n non-missing values and any bin
\* count b >= 1, get_histogram returns b+1 bin edges and b counts that sum to n,
\* every present value counted in exactly one bin.
C1_AsStated == HistogramCall => HistogramBins(Present, args.bins)

\* C1 amended: the same for n >= 1 non-missing values that are all finite; a
\* column with no present value gives empty bins and counts, and a column with
\* an infinite value makes the call fail with a ValueError.
C1_HistogramShape ==
    HistogramCall =>
        IF Len(Present) = 0
        THEN ~result.raised /\ result.value.bins = <<>> /\ result.value.counts = <<>>
        ELSE IF AllFinite(Present) THEN HistogramBins(Present, args.bins)
        ELSE result.raised /\ result.exc = "ValueError: autodetected range is not finite"

\* Three bins over distinct finite values, two of them occupied.
C1_Witness ==
    /\ HistogramCall /\ ~result.raised /\ args.bins = 3
    /\ AllFinite(Present) /\ Len(Present) >= 3
    /\ IntOf(result.value.counts[1]) >= 1 /\ IntOf(result.value.counts[3]) >= 2

(***************************************************************************)
(* C2.  Box plot: outliers and fence range partition the values.           *)
(***************************************************************************)
BoxplotCall == op = "get_boxplot" /\ Len(NumericValues) >= 1

\* The fences, from the quartiles the payload reports.
FenceLow == FSub(result.value.stats.q1.num,
                 FMul(Fin(3, 2), FSub(result.value.stats.q3.num, result.value.stats.q1.num)))
FenceHigh == FAdd(result.value.stats.q3.num,
                  FMul(Fin(3, 2), FSub(result.value.stats.q3.num, result.value.stats.q1.num)))

Outside(c) == FLt(c, FenceLow) \/ FGt(c, FenceHigh)

BoxplotPartition ==
    /\ ~result.raised
    /\ Nums(result.value.outliers) = SelectSeq(NumericValues, Outside)
    /\ \A i \in DOMAIN NumericValues :
          ~Outside(NumericValues[i]) =>
              FLe(FenceLow, NumericValues[i]) /\ FLe(NumericValues[i], FenceHigh)

\* C2 as stated: for every column with at least one numeric value the outliers
\* list holds exactly the values outside [Q1-1.5*IQR, Q3+1.5*IQR], with their
\* multiplicity, and every other value lies inside that closed range.
C2_AsStated == BoxplotCall => BoxplotPartition

\* C2 on finite data: the partition does hold for every column whose numeric
\* values are all finite; it is an infinite value that breaks it.
C2_FinitePartition == (BoxplotCall /\ AllFinite(NumericValues)) => BoxplotPartition

(***************************************************************************)
(* C3.  Pie chart: the "Other" bucket conserves mass.                      *)
(***************************************************************************)
PieCall == op = "get_pie_data"

DistinctPresent == Range(Present)

CountIn(cells, label) == Cardinality({i \in DOMAIN cells : AsStr(cells[i]) = label})

\* Entry i of the payload is a category of the column, with its own count.
OwnCount(i) ==
    /\ \E v \in DistinctPresent : AsStr(v) = result.value.categories[i]
    /\ IntOf(result.value.values[i]) = CountIn(Present, result.value.categories[i])

\* C3: the values sum to the number of non-missing cells; with at most `limit`
\* distinct values every category is returned with its own count and there is
\* no "Other"; with more, the top limit-1 categories by count are returned,
\* followed by one "Other" entry holding the sum of the rest.
C3_PieConservesMass ==
    PieCall =>
        /\ ~result.raised
        /\ Len(result.value.categories) = Len(result.value.values)
        /\ PayloadSum(result.value.values) = Len(Present)
        /\ \A i \in DOMAIN result.value.values : result.value.values[i].ty = "int"
        /\ IF Cardinality(DistinctPresent) <= args.limit
           THEN /\ Len(result.value.categories) = Cardinality(DistinctPresent)
                /\ \A i \in DOMAIN result.value.categories : OwnCount(i)
                /\ \A i, j \in DOMAIN result.value.categories :
                      i # j => result.value.categories[i] # result.value.categories[j]
           ELSE /\ Len(result.value.categories) = args.limit
                /\ result.value.categories[args.limit] = OtherLabel
                /\ \A i \in 1..(args.limit - 1) : OwnCount(i)
                /\ \A i, j \in 1..(args.limit - 1) :
                      i # j => result.value.categories[i] # result.value.categories[j]
                /\ \A i \in 1..(args.limit - 1) : \A v \in DistinctPresent :
                      \/ \E j \in 1..(args.limit - 1) : result.value.categories[j] = AsStr(v)
                      \/ IntOf(result.value.values[i]) >= CountIn(Present, AsStr(v))

\* Three distinct values under limit 2: one category kept, two in "Other".
C3_Witness ==
    /\ PieCall /\ ~result.raised /\ args.limit = 2
    /\ Cardinality(DistinctPresent) = 3
    /\ result.value.categories[2] = OtherLabel
    /\ IntOf(result.value.values[2]) = 2

(***************************************************************************)
(* C9.  An empty result is not an error.                                   *)
(***************************************************************************)
\* C9 as stated: when the selected column exists and has no present value (no
\* rows, or every cell missing) get_histogram returns bins=[] and counts=[] and
\* get_boxplot returns stats=null and outliers=[], whatever the storage type.
C9_EmptyIsNoError ==
    /\ (op = "get_histogram" /\ Len(Present) = 0) =>
          ~result.raised /\ result.value.bins = <<>> /\ result.value.counts = <<>>
    /\ (op = "get_boxplot" /\ Len(Present) = 0) =>
          ~result.raised /\ result.value.stats.none /\ result.value.outliers = <<>>
(***************************************************************************)
(* Calls of the row filter on a table with a float64 column "x" and an     *)
(* object column "s".                                                      *)
(***************************************************************************)
FilterNumCells == {NaN, Int2F(0), Int2F(1), Inf(1)}
FilterTextCells == {NaN, Str(<<"a">>), Str(<<"A", "b">>), Str(<<"1">>)}

TwoColumnTable(rows) ==
    DataFrame(RowIndex(Len(rows)),
              <<Column("x", "float64", [i \in DOMAIN rows |-> rows[i][1]]),
                Column("s", "object", [i \in DOMAIN rows |-> rows[i][2]])>>)

TwoColumnTables ==
    {TwoColumnTable(rows) : rows \in SeqsUpTo(FilterNumCells \X FilterTextCells, FilterRows)}

\* "nope" names no column; "between" and "" are no operators; "x1" and "(" are
\* no numbers, and "(" is no regular expression.
FilterColumns == {None, "", "x", "s", "nope"}
FilterOperators == {None, "", ">", "<", ">=", "<=", "==", "!=", "contains", "between"}
FilterValues == {NoValue, <<>>, <<"1">>, <<"a">>, <<"x", "1">>, <<"(">>, <<"n", "a", "n">>}

InitFilter ==
    /\ df \in TwoColumnTables
    /\ op = "none"
    /\ args = [column |-> None, filter |-> NoFilter]
    /\ result = Ok(<<>>)
    /\ NoServer

ApplyFilter ==
    /\ op = "none"
    /\ \E column \in FilterColumns, operator \in FilterOperators, value \in FilterValues :
          /\ op' = "apply_filter"
          /\ args' = [column |-> None, filter |-> Filter(column, operator, value)]
          /\ result' = apply_filter(df, column, operator, value)
    /\ UNCHANGED <<df, server>>

NextFilter == ApplyFilter

SpecFilter == InitFilter /\ [][NextFilter]_vars

(***************************************************************************)
(* C5.  The filter is the identity when it is incomplete or names no       *)
(* column of the table.                                                    *)
(***************************************************************************)
FilterCall == op = "apply_filter"

NotSupplied(name) == name \in {None, ""}

\* C5: apply_filter returns its input table (same rows, same order, same
\* columns) whenever the column, the operator or the value is not supplied, or
\* the column is no column of the table.
C5_IncompleteFilterIsIdentity ==
    (/\ FilterCall
     /\ \/ NotSupplied(args.filter.column)
        \/ NotSupplied(args.filter.operator)
        \/ args.filter.value = NoValue
        \/ ~HasColumn(df, args.filter.column))
    => (~result.raised /\ result.value = df)

\* A non-empty table, a complete filter on a column the table does not have.
C5_Witness ==
    /\ FilterCall /\ NRows(df) = 2
    /\ args.filter = Filter("nope", "==", <<"1">>)
    /\ result.value = df

(***************************************************************************)
(* C6.  The filter never raises; a bad literal or an unsupported operator  *)
(* leaves the table as it is.                                              *)
(***************************************************************************)
\* The literals of FilterValues that float() rejects.
NotANumber(value) == value \in {<<>>, <<"a">>, <<"x", "1">>, <<"(">>}

FilterOnColumn(dtype) ==
    /\ FilterCall
    /\ ~NotSupplied(args.filter.column) /\ ~NotSupplied(args.filter.operator)
    /\ args.filter.value # NoValue
    /\ HasColumn(df, args.filter.column)
    /\ Series(df, args.filter.column).dtype = dtype

\* C6: apply_filter never raises; on a numeric column a literal that is no
\* number, or an operator outside >, <, >=, <=, ==, != (`contains` included),
\* gives the input table; on a non-numeric column an operator outside those
\* six and `contains` gives the input table.
C6_FilterDegradesToIdentity ==
    /\ FilterCall => ~result.raised
    /\ (FilterOnColumn("float64") /\ NotANumber(args.filter.value)) => result.value = df
    /\ (FilterOnColumn("float64")
            /\ args.filter.operator \notin {">", "<", ">=", "<=", "==", "!="})
          => result.value = df
    /\ (FilterOnColumn("object")
            /\ args.filter.operator \notin {">", "<", ">=", "<=", "==", "!=", "contains"})
          => result.value = df

\* A supported operator with a literal that is no number, on the numeric column
\* of a table with rows the filter would otherwise drop.
C6_Witness ==
    /\ FilterOnColumn("float64") /\ NRows(df) = 2
    /\ args.filter.operator = ">" /\ args.filter.value = <<"x", "1">>
    /\ result.value = df
(***************************************************************************)
(* Calls of get_correlation on tables with up to three numeric columns.    *)
(***************************************************************************)
CorrCells == {NaN, Int2F(0), Int2F(1), Int2F(2)}
SmallCells == {Int2F(0), Int2F(1)}
InfCells == {Int2F(1), Int2F(2), Inf(1)}

\* The cells of column c of rows, a sequence of tuples.
Cells(rows, c) == [i \in DOMAIN rows |-> rows[i][c]]

\* The tables by their columns: no numeric column, one, two (alone, or around
\* the object column "s"), three.
CorrColumns == {<<>>, <<"a">>, <<"a", "b">>, <<"a", "s", "b">>, <<"a", "b", "c">>}

CorrTables(columns) ==
    CASE columns = <<>> -> {DataFrame(RowIndex(n), <<>>) : n \in 0..CorrRows}
      [] columns = <<"a">> ->
            {DataFrame(RowIndex(Len(cells)), <<Column("a", "float64", cells)>>) :
                cells \in SeqsUpTo(SmallCells, CorrRows)}
      [] columns = <<"a", "b">> ->
            {DataFrame(RowIndex(Len(rows)),
                       <<Column("a", "float64", Cells(rows, 1)),
                         Column("b", "float64", Cells(rows, 2))>>) :
                rows \in SeqsUpTo(CorrCells \X CorrCells, CorrRows)}
      [] columns = <<"a", "s", "b">> ->
            {DataFrame(RowIndex(Len(rows)),
                       <<Column("a", "float64", Cells(rows, 1)),
                         Column("s", "object", [i \in DOMAIN rows |-> Str(<<"a">>)]),
                         Column("b", "float64", Cells(rows, 2))>>) :
                rows \in SeqsUpTo(InfCells \X InfCells, CorrRows)}
      [] columns = <<"a", "b", "c">> ->
            {DataFrame(RowIndex(Len(rows)),
                       <<Column("a", "float64", Cells(rows, 1)),
                         Column("b", "float64", Cells(rows, 2)),
                         Column("c", "float64", Cells(rows, 3))>>) :
                rows \in SeqsUpTo(SmallCells \X SmallCells \X SmallCells, CorrRows)}

\* No filter, or one that keeps the rows whose a is above 0.
CorrFilters == {NoFilter, Filter("a", ">", <<"0">>)}

InitCorr ==
    /\ \E columns \in CorrColumns : df \in CorrTables(columns)
    /\ op = "none"
    /\ args = [column |-> None, filter |-> NoFilter]
    /\ result = Ok(<<>>)
    /\ NoServer

Correlation ==
    /\ op = "none"
    /\ \E flt \in CorrFilters :
          /\ op' = "get_correlation"
          /\ args' = [column |-> None, filter |-> flt]
          /\ result' = get_correlation(df, flt.column, flt.operator, flt.value)
    /\ UNCHANGED <<df, server>>

NextCorr == Correlation

SpecCorr == InitCorr /\ [][NextCorr]_vars

(***************************************************************************)
(* C10.  Shape of the correlation matrix.                                  *)
(***************************************************************************)
CorrCall == op = "get_correlation"

\* The numeric columns of the filtered table, in table order.
CorrInput == SelectSeq(Filtered(df, args.filter).cols, LAMBDA c : c.dtype = "float64")

PresentOf(col) == SelectSeq(col.cells, LAMBDA c : ~IsMissing(c))

\* All present values finite and equal (or none present): no variance.
ZeroVariance(col) ==
    AllFinite(PresentOf(col)) /\ Cardinality(Range(PresentOf(col))) <= 1

\* All present values finite and at least two of them different.
HasVariance(col) ==
    AllFinite(PresentOf(col)) /\ Cardinality(Range(PresentOf(col))) >= 2

IsOne(v) == v.ty = "float" /\ v.num.k = "root" /\ v.num.n = v.num.d

CorrMatrix ==
    LET cols == CorrInput
        k == Len(cols)
        m == result.value.matrix
        flat == {i \in 1..k : ZeroVariance(cols[i])}
    IN  /\ result.value.columns = [i \in 1..k |-> cols[i].name]
        /\ Len(m) = k
        /\ \A i \in 1..k : Len(m[i]) = k
        /\ \A i, j \in 1..k : m[i][j] = m[j][i]
        /\ \A i, j \in 1..k : JsonNumber(m[i][j])
        /\ \A i \in 1..k : HasVariance(cols[i]) => IsOne(m[i][i])
        /\ \A i, j \in 1..k : (i \in flat \/ j \in flat) => m[i][j] = Null

\* C10 as stated: an empty matrix when the filtered table has fewer than 2
\* numeric columns; otherwise `columns` lists the k numeric columns in table
\* order and `matrix` is k x k, symmetric, 1.0 on the diagonal of every column
\* with variance, null (never NaN) wherever a column of zero variance is involved.
C10_AsStated ==
    CorrCall =>
        /\ ~result.raised
        /\ IF Len(CorrInput) < 2 THEN result.value.matrix = <<>> ELSE CorrMatrix

\* C10 amended: an empty matrix when the filtered table has no rows or fewer
\* than 2 numeric columns (`columns` is empty too when there is no row or no
\* numeric column); otherwise as stated.
C10_CorrelationMatrix ==
    CorrCall =>
        /\ ~result.raised
        /\ IF NRows(Filtered(df, args.filter)) = 0 \/ Len(CorrInput) = 0
           THEN result.value.matrix = <<>> /\ result.value.columns = <<>>
           ELSE IF Len(CorrInput) < 2
           THEN result.value.matrix = <<>> /\ result.value.columns = <<CorrInput[1].name>>
           ELSE CorrMatrix

\* Three numeric columns, one constant: a 3 x 3 matrix with a 1.0 and a null
\* on its diagonal.
C10_Witness ==
    /\ CorrCall /\ ~result.raised /\ Len(CorrInput) = 3
    /\ HasVariance(CorrInput[1]) /\ ZeroVariance(CorrInput[3])
    /\ IsOne(result.value.matrix[1][1])
    /\ result.value.matrix[3][3] = Null
    /\ result.value.matrix[1][2] # Null /\ ~IsOne(result.value.matrix[1][2])
(***************************************************************************)
(* Calls of the two scorers, on the figures quick_analyze_dataframe hands  *)
(* them: one missing percentage per column, the duplicate and total row    *)
(* counts, one outlier percentage per numeric column.  Percentages are     *)
(* rounded to two decimals, so they are hundredths.                        *)
(***************************************************************************)
Pct(hundredths) == Fin(hundredths, 100)

Rep(x, n) == [i \in 1..n |-> x]

\* Columns by missing rate: some at most 10%, some in (10, 30], some above 30.
MissingLists ==
    {Rep(Pct(low), 1) \o Rep(Pct(mid), b) \o Rep(Pct(high), c) :
        low \in {0, 1000}, mid \in {1001, 3000}, high \in {3001, 10000},
        b \in 0..MaxModerate, c \in 0..MaxHigh}
    \cup {<<>>}

\* Numeric columns by outlier rate: one of them with any rate, the others above 5%.
OutlierLists ==
    {Rep(Pct(any), a) \o Rep(Pct(high), b) :
        any \in {0, 500, 2500}, high \in {501, 10000}, a \in 0..1, b \in 0..MaxOutlierCols}

\* <<duplicate rows, total rows>>: none of none, 0%, 5%, 20%, 25%, 95%, 1 of 3, 1 of 15
\* (df.duplicated() never marks the first of equal rows, so fewer than all rows).
RowCounts ==
    {<<0, 0>>, <<0, 20>>, <<1, 20>>, <<4, 20>>, <<5, 20>>, <<19, 20>>, <<1, 3>>, <<1, 15>>}

ColumnName(i) == <<"c", DigitChar(i % 10)>>

\* The missing_data_insights of quick_analyze_dataframe (lines 138-156).
MissingData(missing) ==
    [columns |-> [i \in DOMAIN missing |->
                     [column |-> ColumnName(i), missing_percentage |-> missing[i]]],
     columns_above_30_percent_missing |->
         ColumnsWhere([i \in DOMAIN missing |->
                          [column |-> ColumnName(i), missing_percentage |-> missing[i]]],
                      LAMBDA c : FGt(c.missing_percentage, Int2F(30)))]

\* The outlier_detection list of quick_analyze_dataframe (lines 207-218).
OutlierDetection(outliers) ==
    [i \in DOMAIN outliers |-> [column |-> ColumnName(i), outlier_percentage |-> outliers[i]]]

InitScore ==
    /\ df = DataFrame(<<>>, <<>>)
    /\ op = "none"
    /\ args = [column |-> None, filter |-> NoFilter]
    /\ result = Ok(<<>>)
    /\ NoServer

Score ==
    /\ op = "none"
    /\ \E missing \in MissingLists, outliers \in OutlierLists, rows \in RowCounts :
          /\ Len(outliers) <= Len(missing)
          /\ op' = "score"
          /\ args' = [missing_percentages |-> missing, duplicate_rows |-> rows[1],
                      total_rows |-> rows[2], outlier_percentages |-> outliers]
          /\ result' = Ok([ml_readiness |->
                               _compute_ml_readiness(missing, rows[1], rows[2], outliers),
                           data_quality |->
                               compute_data_quality_score(MissingData(missing), rows[1],
                                   rows[2], OutlierDetection(outliers))])
    /\ UNCHANGED <<df, server>>

NextScore == Score

SpecScore == InitScore /\ [][NextScore]_vars

(***************************************************************************)
(* C4.  Both scores are integers in [0, 100].                              *)
(***************************************************************************)
ScoreCall == op = "score"

IntegerScore(v) == v.ty = "int" /\ v.num.d = 1 /\ v.num.n >= 0 /\ v.num.n <= 100

\* C4: for every table the ML-Readiness readiness_score and the Data-Quality
\* overall_score are integers in [0, 100].
C4_ScoresInRange ==
    ScoreCall =>
        /\ IntegerScore(result.value.ml_readiness.readiness_score)
        /\ IntegerScore(result.value.data_quality.overall_score)

\* Every Data-Quality penalty at its cap, 100 - 30 - 15 - 20 - 10 = 25, on figures
\* that put the ML-Readiness score below 50.
C4_Witness ==
    /\ ScoreCall
    /\ IntOf(result.value.data_quality.overall_score) = 25
    /\ IntOf(result.value.ml_readiness.readiness_score) < 50

(***************************************************************************)
(* C11.  The ML-Readiness score as a formula of its inputs.                *)
(***************************************************************************)
\* The mean of a non-empty list of percentages.
AverageOf(xs) == Reduce(FMul(Sum(xs), Fin(1, Len(xs))))

Capped(x, cap) == IF FLt(cap, x) THEN cap ELSE x

Clamped(x) == IF FLt(x, Int2F(0)) THEN Int2F(0) ELSE Capped(x, Int2F(100))

Less(x, penalty) == Reduce(FSub(x, penalty))

\* 100 * duplicate rows / rows, for a table with rows.
DuplicatePct == Reduce(Fin(100 * args.duplicate_rows, args.total_rows))

MissingPenalty ==
    IF args.missing_percentages = <<>> THEN Int2F(0)
    ELSE Capped(Reduce(FMul(AverageOf(args.missing_percentages), Fin(1, 2))), Int2F(30))

DuplicatePenalty ==
    IF args.total_rows = 0 THEN Int2F(0)
    ELSE Capped(Reduce(FMul(DuplicatePct, Fin(3, 10))), Int2F(15))

OutlierPenalty ==
    IF args.outlier_percentages = <<>> THEN Int2F(0)
    ELSE Capped(Reduce(FMul(AverageOf(args.outlier_percentages), Fin(1, 5))), Int2F(10))

ReadinessValue ==
    Clamped(Less(Less(Less(Int2F(100), MissingPenalty), DuplicatePenalty), OutlierPenalty))

\* s is an integer nearest to x (either neighbour when x lies half way).
NearestInteger(s, x) == 2 * Abs(s * x.d - x.n) <= x.d

ReadinessLevel(s) ==
    IF FGe(s, Int2F(80)) THEN "High" ELSE IF FGe(s, Int2F(50)) THEN "Moderate" ELSE "Low"

\* C11 as stated: the readiness score equals the clamped value of 100 less the
\* three capped penalties, and the level follows the thresholds 80 and 50.
C11_AsStated ==
    ScoreCall =>
        /\ FEq(result.value.ml_readiness.readiness_score.num, ReadinessValue)
        /\ result.value.ml_readiness.readiness_level = ReadinessLevel(ReadinessValue)

\* C11: the readiness score is the integer nearest to 100 less min(average
\* missing % * 0.5, 30), min(duplicate % * 0.3, 15) and min(average outlier %
\* * 0.2, 10), clamped to [0, 100]; a penalty without input is zero; the level
\* is High from 80, Moderate from 50 and Low below, by the rounded score.
C11_ReadinessFormula ==
    ScoreCall =>
        LET score == result.value.ml_readiness.readiness_score
        IN  /\ score.ty = "int" /\ score.num.d = 1
            /\ NearestInteger(IntOf(score), ReadinessValue)
            /\ result.value.ml_readiness.readiness_level = ReadinessLevel(score.num)

\* All three penalties apply, uncapped, the value is not an integer and rounds
\* to a Moderate score.
C11_Witness ==
    /\ ScoreCall
    /\ FLt(Int2F(0), MissingPenalty) /\ FLt(MissingPenalty, Int2F(30))
    /\ FLt(Int2F(0), DuplicatePenalty) /\ FLt(DuplicatePenalty, Int2F(15))
    /\ FLt(Int2F(0), OutlierPenalty) /\ FLt(OutlierPenalty, Int2F(10))
    /\ ReadinessValue.d # 1
    /\ result.value.ml_readiness.readiness_level = "Moderate"

(***************************************************************************)
(* C12.  The Data-Quality score as a formula of its inputs.                *)
(***************************************************************************)
HowMany(xs, Test(_)) == Cardinality({i \in DOMAIN xs : Test(xs[i])})

AtMost(n, cap) == IF n > cap THEN cap ELSE n

HighMissing == HowMany(args.missing_percentages, LAMBDA p : FGt(p, Int2F(30)))

HighOutliers == HowMany(args.outlier_percentages, LAMBDA p : FGt(p, Int2F(5)))

DuplicateCharge ==
    IF args.total_rows > 0 /\ FGt(DuplicatePct, Int2F(5))
    THEN Capped(DuplicatePct, Int2F(20)) ELSE Int2F(0)

QualityValue(moderate) ==
    Clamped(Less(Int2F(100 - AtMost(10 * HighMissing, 30) - AtMost(3 * moderate, 15)
                           - AtMost(2 * HighOutliers, 10)),
                 DuplicateCharge))

QualityLevel(s) ==
    IF FGe(s, Int2F(80)) THEN "Good" ELSE IF FGe(s, Int2F(60)) THEN "Fair"
    ELSE IF FGe(s, Int2F(40)) THEN "Needs Work" ELSE "Poor"

\* C12 as stated: the quality score equals the clamped value of 100 less the four
\* capped penalties, the 3-point band being 10% to 30% with both ends in it.
C12_AsStated ==
    ScoreCall =>
        LET value == QualityValue(HowMany(args.missing_percentages,
                         LAMBDA p : FGe(p, Int2F(10)) /\ FLe(p, Int2F(30))))
        IN  /\ FEq(result.value.data_quality.overall_score.num, value)
            /\ result.value.data_quality.level = QualityLevel(value)

\* C12: the quality score is the integer nearest to 100 less 10 per column with
\* more than 30% missing (at most 30), 3 per column with more than 10% and at
\* most 30% missing (at most 15), min(duplicate %, 20) when the duplicate % is
\* above 5, and 2 per column with more than 5% outliers (at most 10), clamped to
\* [0, 100]; the level is Good from 80, Fair from 60, Needs Work from 40 and
\* Poor below, by the rounded score.
C12_QualityFormula ==
    ScoreCall =>
        LET score == result.value.data_quality.overall_score
            value == QualityValue(HowMany(args.missing_percentages,
                         LAMBDA p : FGt(p, Int2F(10)) /\ FLe(p, Int2F(30))))
        IN  /\ score.ty = "int" /\ score.num.d = 1
            /\ NearestInteger(IntOf(score), value)
            /\ result.value.data_quality.level = QualityLevel(score.num)

\* One column above 30%, one in the band, one column at exactly 10%, one column
\* with outliers above 5% and 1 duplicate row of 15: 100 - 10 - 3 - 6.67 - 2.
C12_Witness ==
    /\ ScoreCall
    /\ HighMissing = 1 /\ HighOutliers = 1
    /\ HowMany(args.missing_percentages, LAMBDA p : FEq(p, Int2F(10))) = 1
    /\ HowMany(args.missing_percentages,
               LAMBDA p : FGt(p, Int2F(10)) /\ FLe(p, Int2F(30))) = 1
    /\ args.duplicate_rows = 1 /\ args.total_rows = 15
    /\ IntOf(result.value.data_quality.overall_score) = 78
    /\ result.value.data_quality.level = "Fair"

(***************************************************************************)
(* The frames of a call, by identity.  "df" is the object the caller       *)
(* passed; df[mask], df[[x, y]].dropna() and df.copy() make new objects;   *)
(* an assignment frame[column] = series writes into the object the name    *)
(* is bound to, whoever else holds it.                                     *)
(***************************************************************************)
\* apply_filter hands back its argument itself (`return df`): no filter, a
\* column the table has not, an exception in the try block, or an operator no
\* branch takes.
ReturnsArgument(t, column, operator, value) ==
    \/ ~Truthy(column) \/ ~Truthy(operator) \/ value = NoValue
    \/ ~HasColumn(t, column)
    \/ FilterBody(t, column, operator, value).raised
    \/ IF is_numeric_dtype(Series(t, column)) THEN operator \notin NumericOps
       ELSE operator \notin NumericOps \cup {"contains"}

\* The frames after `df = apply_filter(df, ...)` and the object df is bound to.
FilteredFrames(t, column, operator, value) ==
    IF ReturnsArgument(t, column, operator, value)
    THEN [frames |-> [o \in {"df"} |-> t], df |-> "df"]
    ELSE [frames |-> ("filtered" :> apply_filter(t, column, operator, value).value)
                         @@ [o \in {"df"} |-> t],
          df |-> "filtered"]

\* Mutant of copy: no copy is made, the name is bound to the object itself.
copy_aliased(object) == object

\* df.copy(): the object the copy is.
copy(object) == "df_copy"

\* frames[object][column] = series
setitem(frames, object, column, series) ==
    LET cols == frames[object].cols
    IN  [frames EXCEPT ![object].cols =
            [i \in DOMAIN cols |-> IF cols[i].name = column
                                   THEN [series EXCEPT !.name = column]
                                   ELSE cols[i]]]

\* The frames get_scatter leaves behind (lines 144-159).
get_scatter_frames(t, x, y, filter_column, filter_operator, filter_value) ==
    LET f == FilteredFrames(t, filter_column, filter_operator, filter_value)
        df0 == f.frames[f.df]
    IN  IF ~HasColumn(df0, x) \/ ~HasColumn(df0, y) \/ x = y THEN f.frames
        ELSE LET both == [i \in DOMAIN df0.index |->
                            /\ ~IsMissing(Series(df0, x).cells[i])
                            /\ ~IsMissing(Series(df0, y).cells[i])]
                 made == ("clean_df" :> TakeRows(DataFrame(df0.index,
                                                           <<Series(df0, x), Series(df0, y)>>),
                                                 both)) @@ f.frames
                 first == setitem(made, "clean_df", x, to_numeric(Series(made["clean_df"], x)))
             IN  setitem(first, "clean_df", y, to_numeric(Series(first["clean_df"], y)))

\* The frames get_line_data and get_area_data leave behind (lines 204-213,
\* 276-286): the date column of df_copy is made a datetime column.
DatedFrames(t, date_col, required, filter_column, filter_operator, filter_value) ==
    LET f == FilteredFrames(t, filter_column, filter_operator, filter_value)
        df0 == f.frames[f.df]
    IN  IF \E c \in required : ~HasColumn(df0, c) THEN f.frames
        ELSE LET df_copy == copy(f.df)
                 made == IF df_copy \in DOMAIN f.frames THEN f.frames
                         ELSE (df_copy :> df0) @@ f.frames
             IN  setitem(made, df_copy, date_col, to_datetime(Series(made[df_copy], date_col)))

get_line_data_frames(t, date_col, value_col, filter_column, filter_operator, filter_value) ==
    DatedFrames(t, date_col, {date_col, value_col},
                filter_column, filter_operator, filter_value)

get_area_data_frames(t, date_col, value_col, stack_col, filter_column, filter_operator, filter_value) ==
    DatedFrames(t, date_col, {date_col, value_col, stack_col},
                filter_column, filter_operator, filter_value)

(***************************************************************************)
(* Calls of every chart aggregator on a table with a date column "d"       *)
(* (text), a category column "g" (text) and a value column "v" (float64).  *)
(* Each selector names the column of its role or "nope", which no table    *)
(* has; an optional selector may also be left out (None) or be empty.      *)
(***************************************************************************)
DateCells == {Str(<<"2", "0", "2", "4">>), Str(<<"2", "0", "2", "5">>), Str(<<"x">>)}
GroupCells == {NaN, Str(<<"a">>), Str(<<"b">>)}
ValueCells == {NaN, Int2F(1), Inf(1)}

ChartTable(rows) ==
    DataFrame(RowIndex(Len(rows)),
              <<Column("d", "object", [i \in DOMAIN rows |-> rows[i][1]]),
                Column("g", "object", [i \in DOMAIN rows |-> rows[i][2]]),
                Column("v", "float64", [i \in DOMAIN rows |-> rows[i][3]])>>)

ChartTables == {ChartTable(rows) : rows \in SeqsUpTo(DateCells \X GroupCells \X ValueCells, ChartRows)}

ChartFilters == {NoFilter, Filter("v", ">", <<"0">>)}

Optional(names) == names \cup {None, ""}

InitChart ==
    /\ df \in ChartTables
    /\ op = "none"
    /\ args = [selectors |-> <<>>, filter |-> NoFilter]
    /\ result = Ok(<<>>)
    /\ NoServer

ChartHistogram ==
    /\ op = "none"
    /\ \E column \in {"v", "g", "nope"}, bins \in {1, MaxBins}, flt \in ChartFilters :
          /\ op' = "get_histogram"
          /\ args' = [selectors |-> <<column>>, filter |-> flt, bins |-> bins]
          /\ result' = get_histogram(df, column, bins, flt.column, flt.operator, flt.value)
    /\ UNCHANGED <<df, server>>

ChartBar ==
    /\ op = "none"
    /\ \E column \in {"v", "g", "nope"}, flt \in ChartFilters :
          /\ op' = "get_bar_counts"
          /\ args' = [selectors |-> <<column>>, filter |-> flt]
          /\ result' = get_bar_counts(df, column, flt.column, flt.operator, flt.value)
    /\ UNCHANGED <<df, server>>

ChartScatter ==
    /\ op = "none"
    /\ \E x \in {"v", "nope"}, y \in {"d", "v", "nope"}, flt \in ChartFilters :
          /\ op' = "get_scatter"
          /\ args' = [selectors |-> <<x, y>>, filter |-> flt]
          /\ result' = get_scatter(df, x, y, flt.column, flt.operator, flt.value)
    /\ UNCHANGED <<df, server>>

ChartCorrelation ==
    /\ op = "none"
    /\ \E flt \in ChartFilters :
          /\ op' = "get_correlation"
          /\ args' = [selectors |-> <<>>, filter |-> flt]
          /\ result' = get_correlation(df, flt.column, flt.operator, flt.value)
    /\ UNCHANGED <<df, server>>

ChartLine ==
    /\ op = "none"
    /\ \E date_col \in {"d", "nope"}, value_col \in {"v", "nope"},
          group_col \in Optional({"g", "nope"}), flt \in ChartFilters :
          /\ op' = "get_line_data"
          /\ args' = [selectors |-> <<date_col, value_col, group_col>>, filter |-> flt]
          /\ result' = get_line_data(df, date_col, value_col, group_col,
                                     flt.column, flt.operator, flt.value)
    /\ UNCHANGED <<df, server>>

ChartPie ==
    /\ op = "none"
    /\ \E column \in {"v", "g", "nope"}, limit \in {1, MaxLimit}, flt \in ChartFilters :
          /\ op' = "get_pie_data"
          /\ args' = [selectors |-> <<column>>, filter |-> flt, limit |-> limit]
          /\ result' = get_pie_data(df, column, limit, flt.column, flt.operator, flt.value)
    /\ UNCHANGED <<df, server>>

ChartArea ==
    /\ op = "none"
    /\ \E date_col \in {"d", "nope"}, value_col \in {"v", "nope"},
          stack_col \in {"g", "nope"}, flt \in ChartFilters :
          /\ op' = "get_area_data"
          /\ args' = [selectors |-> <<date_col, value_col, stack_col>>, filter |-> flt]
          /\ result' = get_area_data(df, date_col, value_col, stack_col,
                                     flt.column, flt.operator, flt.value)
    /\ UNCHANGED <<df, server>>

ChartBoxplot ==
    /\ op = "none"
    /\ \E column \in {"v", "g", "nope"}, flt \in ChartFilters :
          /\ op' = "get_boxplot"
          /\ args' = [selectors |-> <<column>>, filter |-> flt]
          /\ result' = get_boxplot(df, column, flt.column, flt.operator, flt.value)
    /\ UNCHANGED <<df, server>>

ChartTreemap ==
    /\ op = "none"
    /\ \E group_cols \in {<<"g">>, <<"g", "d">>, <<"nope">>, <<"g", "nope">>},
          value_col \in {"v", "nope"}, flt \in ChartFilters :
          /\ op' = "get_treemap_data"
          /\ args' = [selectors |-> group_cols \o <<value_col>>, filter |-> flt]
          /\ result' = get_treemap_data(df, group_cols, value_col,
                                        flt.column, flt.operator, flt.value)
    /\ UNCHANGED <<df, server>>

ChartStackedBar ==
    /\ op = "none"
    /\ \E category_col \in {"g", "nope"}, stack_col \in {"d", "nope"},
          value_col \in Optional({"v", "nope"}), flt \in ChartFilters :
          /\ op' = "get_stacked_bar"
          /\ args' = [selectors |-> <<category_col, stack_col, value_col>>, filter |-> flt]
          /\ result' = get_stacked_bar(df, category_col, stack_col, value_col,
                                       flt.column, flt.operator, flt.value)
    /\ UNCHANGED <<df, server>>

NextChart ==
    \/ ChartHistogram \/ ChartBar \/ ChartScatter \/ ChartCorrelation \/ ChartLine
    \/ ChartPie \/ ChartArea \/ ChartBoxplot \/ ChartTreemap \/ ChartStackedBar

SpecChart == InitChart /\ [][NextChart]_vars

(***************************************************************************)
(* C7.  Every selector is validated.                                       *)
(***************************************************************************)
ChartCall == op # "none"

\* The selectors the call was given that name no column of the filtered table.
MissingSelectors ==
    {args.selectors[i] : i \in {j \in DOMAIN args.selectors :
        /\ Truthy(args.selectors[j])
        /\ ~HasColumn(Filtered(df, args.filter), args.selectors[j])}}

\* C7 as stated: every chart aggregator checks every selector it is given
\* against the filtered table; when a supplied selector names no column of
\* that table the call fails with a 'Column not found' error naming that
\* column, and returns no payload.
C7_AsStated ==
    ChartCall /\ MissingSelectors # {} =>
        /\ result.raised
        /\ result.exc = "ValueError: Column not found"
        /\ result.what \in MissingSelectors

(***************************************************************************)
(* C8.  No non-finite number in a payload.                                 *)
(***************************************************************************)
\* The union of the ranges of a sequence of sequences.
Flatten(seqs) == UNION {Range(seqs[i]) : i \in DOMAIN seqs}

\* The values at the numeric positions of the payload.
PayloadNumbers ==
    LET v == result.value
    IN  CASE op = "get_histogram" -> Range(v.bins) \cup Range(v.counts)
          [] op = "get_bar_counts" -> Range(v.counts)
          [] op = "get_scatter" -> Range(v.x) \cup Range(v.y)
          [] op = "get_correlation" -> Flatten(v.matrix)
          [] op = "get_line_data" ->
                IF "series" \in DOMAIN v
                THEN UNION {{v.series[g].data[i].value : i \in DOMAIN v.series[g].data} :
                                g \in DOMAIN v.series}
                ELSE {v.data[i].value : i \in DOMAIN v.data}
          [] op = "get_pie_data" -> Range(v.values)
          [] op = "get_area_data" -> Flatten([c \in DOMAIN v.series |-> v.series[c].values])
          [] op = "get_boxplot" ->
                {v.stats.min, v.stats.q1, v.stats.median, v.stats.q3, v.stats.max,
                 v.stats.mean} \cup Range(v.outliers)
          [] op = "get_treemap_data" -> {v.nodes[i].value : i \in DOMAIN v.nodes}
          [] op = "get_stacked_bar" -> Flatten([c \in DOMAIN v.data |-> v.data[c].values])

\* C8 as stated: no payload returned by any chart aggregator contains a
\* non-finite number; each numeric position of the payload is a finite number
\* or null, also for tables whose numeric cells hold NaN or an infinity.
C8_AsStated ==
    ChartCall /\ ~result.raised => \A v \in PayloadNumbers : JsonNumber(v)

(***************************************************************************)
(* Calls of compute_scatter_recommendations.  The numeric columns are c1,  *)
(* c2, ...; the first pairs of the upper triangle have a correlation, a    *)
(* float rounded to 4 decimals (or None), the pairs after them have none   *)
(* (their coefficient was NaN and quick_analyze_dataframe left them out).  *)
(***************************************************************************)
Corr(tenthousandths) == PyFloat(Fin(tenthousandths, 10000))

\* Correlations at and next to every threshold of the labels.
ThresholdCorrs ==
    {Corr(t) : t \in {-10000, -7001, -7000, -3001, -3000, -1001, -1000, -999, 0,
                      999, 1000, 1001, 3000, 3001, 7000, 7001, 10000}}
    \cup {Null}

\* and one that was not rounded
BoundaryCorrs == ThresholdCorrs \cup {PyFloat(Fin(70004, 100000))}

CommonCorrs == {Corr(5000), Corr(-5000), Corr(-9000)}

NumericNames(n) == [i \in 1..n |-> ColumnName(i)]

CorrValueLists(n) ==
    LET npairs == (n * (n - 1)) \div 2
    IN  UNION {[1..k -> CommonCorrs] : k \in 0..Min2(MaxCorrs, npairs)}
        \cup (IF npairs >= 1 THEN {<<v>> : v \in BoundaryCorrs} ELSE {})
        \cup (IF npairs >= 2 THEN {<<v, w>> : v, w \in ThresholdCorrs} ELSE {})

\* all_correlations of quick_analyze_dataframe: the upper triangle, sorted by
\* absolute value, largest first.
all_correlations(numeric_columns, values) ==
    LET pairs == combinations(numeric_columns)
    IN  SortByAbs([i \in DOMAIN values |->
                      [column_a |-> pairs[i][1], column_b |-> pairs[i][2],
                       correlation |-> values[i]]], <<>>)

InitRecommend ==
    /\ df = DataFrame(<<>>, <<>>)
    /\ op = "none"
    /\ args = [column |-> None, filter |-> NoFilter]
    /\ result = Ok(<<>>)
    /\ NoServer

Recommend ==
    /\ op = "none"
    /\ \E n \in 0..MaxNumeric :
          \E values \in CorrValueLists(n) :
             LET numeric_columns == NumericNames(n)
                 correlations == all_correlations(numeric_columns, values)
             IN  /\ op' = "compute_scatter_recommendations"
                 /\ args' = [numeric_columns |-> numeric_columns,
                             correlations |-> correlations]
                 /\ result' = Ok(compute_scatter_recommendations(numeric_columns,
                                                                 correlations))
    /\ UNCHANGED <<df, server>>

NextRecommend == Recommend

SpecRecommend == InitRecommend /\ [][NextRecommend]_vars

(***************************************************************************)
(* C13.  The label of a recommendation.                                    *)
(***************************************************************************)
RecommendCall == op = "compute_scatter_recommendations"

Fallback(entry) == entry.insight = ExploreLabel

\* The correlation entries of the pair a recommendation is about.
InputsOf(entry) ==
    {c \in Range(args.correlations) : c.column_a = entry.x /\ c.column_b = entry.y}

Magnitude(r) == IF FLt(r, Int2F(0)) THEN FNeg(r) ELSE r

\* A correlation that is not null and has |r| >= 0.1.
Qualifying(c) ==
    c.correlation.ty # "NoneType" /\ FGe(Magnitude(c.correlation.num), Fin(1, 10))

InsightOf(r) ==
    LET strong == FGt(Magnitude(r), Fin(7, 10))
        moderate == ~strong /\ FGt(Magnitude(r), Fin(3, 10))
        positive == FGt(r, Int2F(0))
    IN  CASE strong /\ positive -> "Strong positive correlation"
          [] strong /\ ~positive -> "Strong negative correlation"
          [] moderate /\ positive -> "Moderate positive correlation"
          [] moderate /\ ~positive -> "Moderate negative correlation"
          [] ~strong /\ ~moderate /\ positive -> "Weak positive correlation"
          [] OTHER -> "Weak negative correlation"

Labelled(entry) ==
    \A c \in InputsOf(entry) : Qualifying(c) /\ entry.insight = InsightOf(c.correlation.num)

\* C13 as stated: a recommendation made from a correlation r, |r| >= 0.1, is
\* labelled Strong when |r| > 0.7, Moderate when 0.3 < |r| <= 0.7 and Weak
\* otherwise, positive exactly when r > 0 and negative exactly when r < 0; a
\* correlation with |r| < 0.1 or a null one produces no recommendation.
C13_AsStated ==
    RecommendCall =>
        \A i \in DOMAIN result.value :
            ~Fallback(result.value[i]) =>
                InputsOf(result.value[i]) # {} /\ Labelled(result.value[i])

\* The labels of C13 for every correlation other than exactly 0.1.
C13_LabelsOffTheThreshold ==
    RecommendCall =>
        \A i \in DOMAIN result.value :
            (/\ ~Fallback(result.value[i])
             /\ \A c \in InputsOf(result.value[i]) : c.correlation # Corr(1000))
            => InputsOf(result.value[i]) # {} /\ Labelled(result.value[i])

(***************************************************************************)
(* C14.  The list of recommendations.                                      *)
(***************************************************************************)
QualifyingInputs == {c \in Range(args.correlations) : Qualifying(c)}

ReportedMagnitude(entry) == Magnitude(entry.correlation.num)

\* round(r, 4), r given in lowest terms or not.
ToFourDecimals(r, reported) ==
    /\ NearestInteger((reported.n * 10000) \div reported.d, Fin(r.n * 10000, r.d))
    /\ (reported.n * 10000) % reported.d = 0

FromCorrelations(out) ==
    /\ Len(out) = Min2(5, Cardinality(QualifyingInputs))
    /\ \A i \in DOMAIN out :
          /\ ~Fallback(out[i])
          /\ \E c \in QualifyingInputs :
                /\ InputsOf(out[i]) = {c}
                /\ ToFourDecimals(c.correlation.num, out[i].correlation.num)
    /\ \A i, j \in DOMAIN out :
          /\ i < j => FGe(ReportedMagnitude(out[i]), ReportedMagnitude(out[j]))
          /\ i # j => <<out[i].x, out[i].y>> # <<out[j].x, out[j].y>>
    /\ \A c \in QualifyingInputs :
          (\A i \in DOMAIN out : c \notin InputsOf(out[i]))
          => \A i \in DOMAIN out :
                FGe(ReportedMagnitude(out[i]), Magnitude(Round4(c.correlation.num)))

\* The pairs of the first 4 columns in order, the first 5 of them.
FirstPairs(n) ==
    SelectSeq(<<<<1, 2>>, <<1, 3>>, <<1, 4>>, <<2, 3>>, <<2, 4>>>>,
              LAMBDA p : p[2] <= n)

FromColumns(out) ==
    LET pairs == FirstPairs(Len(args.numeric_columns))
    IN  out = [i \in DOMAIN pairs |->
                  [x |-> args.numeric_columns[pairs[i][1]],
                   y |-> args.numeric_columns[pairs[i][2]],
                   correlation |-> PyFloat(Int2F(0)), insight |-> "Explore relationship"]]

\* C14: at most 5 recommendations are returned.  When a correlation qualifies
\* they are the qualifying pairs by |r| non-increasing, the first 5 of them, none
\* a fallback entry.  When none qualifies and there are 2 or more numeric
\* columns they are the pairs of the first 4 numeric columns in order, at most 5,
\* each "Explore relationship" with correlation 0.0.  The list is empty only
\* when none qualifies and there are fewer than 2 numeric columns.
C14_RecommendationList ==
    RecommendCall =>
        LET out == result.value
        IN  /\ Len(out) <= 5
            /\ QualifyingInputs # {} => FromCorrelations(out)
            /\ QualifyingInputs = {} /\ Len(args.numeric_columns) >= 2 => FromColumns(out)
            /\ QualifyingInputs = {} /\ Len(args.numeric_columns) < 2 => out = <<>>
            /\ Len(args.numeric_columns) >= 2 => out # <<>>

\* Six pairs qualify, two of them with equal |r|, and five are returned.
C14_Witness ==
    /\ RecommendCall
    /\ Cardinality(QualifyingInputs) = 6
    /\ Len(result.value) = 5
    /\ \E i \in DOMAIN result.value :
          /\ i < 5
          /\ FEq(result.value[i].correlation.num, Fin(1, 2))
          /\ FEq(result.value[i + 1].correlation.num, Fin(-1, 2))
    /\ result.value[1].insight = "Strong negative correlation"

(***************************************************************************)
(* Calls of _detect_column_type on a column "x" read from a CSV file: a    *)
(* float64 column of numbers and missing cells, or an object column of     *)
(* years ("2024"), other text ("x") and missing cells.  The column is a    *)
(* few runs of equal cells, a run being as long as the sample or shorter;  *)
(* a file with no data row gives object columns.                           *)
(***************************************************************************)
RunLengths == {0, 1, 2, SampleSize - 1, SampleSize}

RECURSIVE Runs(_, _)
Runs(cells, n) ==
    IF n = 0 THEN {<<>>}
    ELSE {Rep(c, len) \o rest : c \in cells, len \in RunLengths, rest \in Runs(cells, n - 1)}

Year2024 == Str(<<"2", "0", "2", "4">>)

InferColumns ==
    {Column("x", "float64", cells) : cells \in Runs({NaN, Int2F(1)}, MaxRuns - 1) \ {<<>>}}
    \cup {Column("x", "object", cells) : cells \in Runs({NaN, Year2024, Str(<<"x">>)}, MaxRuns)}

InitInfer ==
    /\ \E column \in InferColumns :
          df = DataFrame([i \in DOMAIN column.cells |-> i], <<column>>)
    /\ op = "none"
    /\ args = [column |-> None, filter |-> NoFilter]
    /\ result = Ok(<<>>)
    /\ NoServer

\* quick_analyze_dataframe line 119
DetectQuick ==
    /\ op = "none"
    /\ op' = "quick_analyzer._detect_column_type"
    /\ args' = [column |-> "x", filter |-> NoFilter]
    /\ result' = Ok(_detect_column_type(Series(df, "x")))
    /\ UNCHANGED <<df, server>>

\* profile_dataframe line 54
DetectProfile ==
    /\ op = "none"
    /\ op' = "dataset_profiler._detect_column_type"
    /\ args' = [column |-> "x", filter |-> NoFilter]
    /\ result' = Ok(_detect_column_type(Series(df, "x")))
    /\ UNCHANGED <<df, server>>

NextInfer == DetectQuick \/ DetectProfile

SpecInfer == InitInfer /\ [][NextInfer]_vars

(***************************************************************************)
(* C18.  A column without any value.                                       *)
(***************************************************************************)
DetectCall ==
    op \in {"quick_analyzer._detect_column_type", "dataset_profiler._detect_column_type"}

InferredCells == Series(df, "x").cells

NoValueAtAll == \A i \in DOMAIN InferredCells : IsMissing(InferredCells[i])

\* C18 as stated: a column with zero non-missing values (all cells missing, or
\* no row) is classified unknown or categorical, never numeric or datetime,
\* whatever its storage type.
C18_AsStated ==
    DetectCall /\ NoValueAtAll => result.value \in {"unknown", "categorical"}

(***************************************************************************)
(* C19.  A column with a value that is neither a number nor a date.        *)
(***************************************************************************)
NeitherNumberNorDate(cell) ==
    cell.k = "str" /\ ~ParseFloat(cell.s).ok /\ ToDatetimeCell(cell) = NaT

\* The number of non-missing cells before row i.
PresentBefore(i) == Cardinality({j \in 1..(i - 1) : ~IsMissing(InferredCells[j])})

\* C19 as stated: a column with a non-missing value that is neither a number
\* nor parsable as a date, at whatever row, is classified categorical.
C19_AsStated ==
    (DetectCall /\ \E i \in DOMAIN InferredCells : NeitherNumberNorDate(InferredCells[i]))
    => result.value = "categorical"

\* C19 for a value among the first SampleSize non-missing values.
C19_WithinTheSample ==
    (DetectCall /\ \E i \in DOMAIN InferredCells :
                      /\ NeitherNumberNorDate(InferredCells[i])
                      /\ PresentBefore(i) < SampleSize)
    => result.value = "categorical"

(***************************************************************************)
(* Calls of profile_dataframe and quick_analyze_dataframe on a table read  *)
(* from a CSV file: one to three columns "a", "b", "c", each of one of the *)
(* kinds below.  A file with no data row gives object columns only.        *)
(***************************************************************************)
NumericKinds == {"ones", "up", "down", "bent", "gap", "far", "inf", "blank"}
TextKinds == {"text", "years", "sparse"}

KindCell(kind, i, rows) ==
    CASE kind = "ones" -> Int2F(1)
      [] kind = "up" -> Int2F(i)
      [] kind = "down" -> Int2F(rows + 1 - i)
      [] kind = "bent" -> Int2F(IF i = 1 THEN 2 ELSE IF i = 2 THEN 1 ELSE i)
      [] kind = "gap" -> (IF i = 1 THEN NaN ELSE Int2F(i))
      [] kind = "far" -> Int2F(IF i = rows THEN 50 ELSE 1)
      [] kind = "inf" -> (IF i = 1 THEN Inf(1) ELSE Int2F(1))
      [] kind = "blank" -> NaN
      [] kind = "text" -> Str(IF i % 2 = 1 THEN <<"x">> ELSE <<"y">>)
      [] kind = "years" -> Str(<<"2", "0", "2", IF i % 2 = 1 THEN "4" ELSE "5">>)
      [] kind = "sparse" -> (IF i = 1 THEN NaN ELSE Str(<<"x">>))

KindColumn(name, kind, rows) ==
    Column(name, IF kind \in NumericKinds THEN "float64" ELSE "object",
           [i \in 1..rows |-> KindCell(kind, i, rows)])

AnalyzeNames == <<"a", "b", "c">>

Layouts(kinds) ==
    {<<k>> : k \in kinds} \cup (kinds \X kinds) \cup (kinds \X kinds \X kinds)

AnalyzeTable(layout, rows) ==
    DataFrame([i \in 1..rows |-> i],
              [c \in DOMAIN layout |-> KindColumn(AnalyzeNames[c], layout[c], rows)])

AnalyzeTables ==
    {AnalyzeTable(layout, 0) : layout \in Layouts({"text"})}
    \cup {AnalyzeTable(layout, rows) :
             layout \in Layouts(NumericKinds \cup TextKinds), rows \in 1..AnalyzeRows}

InitAnalyze ==
    /\ df \in AnalyzeTables
    /\ op = "none"
    /\ args = [column |-> None, filter |-> NoFilter]
    /\ result = Ok(<<>>)
    /\ NoServer

\* get_profile (routes/dataset_profile.py)
Profile ==
    /\ op = "none"
    /\ op' = "profile_dataframe"
    /\ args' = [column |-> None, filter |-> NoFilter]
    /\ result' = profile_dataframe(df)
    /\ UNCHANGED <<df, server>>

\* get_quick_analysis (routes/quick_analysis.py)
QuickAnalyze ==
    /\ op = "none"
    /\ op' = "quick_analyze_dataframe"
    /\ args' = [column |-> None, filter |-> NoFilter]
    /\ result' = quick_analyze_dataframe(df)
    /\ UNCHANGED <<df, server>>

NextAnalyze == Profile \/ QuickAnalyze

SpecAnalyze == InitAnalyze /\ [][NextAnalyze]_vars

ProfileCall == op = "profile_dataframe"

AnalyzeCall == op = "quick_analyze_dataframe"

Report == result.value

\* The float64 columns, the ones whose charts and statistics are numeric.
StoredNumeric == SelectSeq(df.cols, LAMBDA c : c.dtype = "float64")

\* np.histogram fails on a column that holds an infinite value.
HistogramFails(c) == \E i \in DOMAIN c.cells : IsInf(c.cells[i])

PresentCount(c) == Cardinality({i \in DOMAIN c.cells : ~IsMissing(c.cells[i])})

ColumnOf(name) == Series(df, name)

IsNone(v) == "ty" \in DOMAIN v /\ v.ty = "NoneType"

(***************************************************************************)
(* C15.  quick_analyze_dataframe keeps a failing sub-step to itself.       *)
(***************************************************************************)
OverviewPopulated ==
    LET o == Report.dataset_overview
    IN  /\ o.row_count = NRows(df) /\ o.column_count = Len(df.cols)
        /\ o.numeric_columns = Names(StoredNumeric)
        /\ Range(o.categorical_columns) \cup Range(o.datetime_columns)
               = Range(Columns(df)) \ Range(o.numeric_columns)
        /\ Range(o.categorical_columns) \cap Range(o.datetime_columns) = {}

MissingTablePopulated ==
    /\ [i \in DOMAIN Report.missing_data_insights.columns |->
           Report.missing_data_insights.columns[i].column] = Columns(df)
    /\ \A i \in DOMAIN df.cols :
          IntOf(Report.missing_data_insights.columns[i].missing_count)
              = Len(df.cols[i].cells) - PresentCount(df.cols[i])

KeyChart(key) ==
    {Report.key_distributions[i].value :
        i \in {j \in DOMAIN Report.key_distributions : Report.key_distributions[j].key = key}}

\* The chart of a key distribution is there, None when it failed; no chart for
\* a kind of column the table does not have.
KeyDistributionsPopulated ==
    LET o == Report.dataset_overview
    IN  /\ IF o.numeric_columns = <<>> THEN KeyChart("primary_numeric_histogram") = {}
           ELSE \E v \in KeyChart("primary_numeric_histogram") :
                   IF HistogramFails(ColumnOf(o.numeric_columns[1])) THEN IsNone(v)
                   ELSE ~IsNone(v) /\ v.column = o.numeric_columns[1]
        /\ IF o.categorical_columns = <<>> THEN KeyChart("primary_categorical_bar") = {}
           ELSE \E v \in KeyChart("primary_categorical_bar") :
                   ~IsNone(v) /\ v.column = o.categorical_columns[1]

FirstThree(names) == SubSeq(names, 1, IF Len(names) < 3 THEN Len(names) ELSE 3)

\* A chart for each of the first three columns of a kind, the failing ones left
\* out; the heatmap when there are two numeric columns.
ChartsPopulated ==
    LET o == Report.dataset_overview
        c == Report.chart_payloads
    IN  /\ [i \in DOMAIN c.histograms |-> c.histograms[i].column]
               = SelectSeq(FirstThree(o.numeric_columns),
                           LAMBDA n : ~HistogramFails(ColumnOf(n)))
        /\ [i \in DOMAIN c.bars |-> c.bars[i].column] = FirstThree(o.categorical_columns)
        /\ IsNone(c.correlation_heatmap) <=> Len(o.numeric_columns) < 2

ScoresPopulated ==
    /\ [i \in DOMAIN Report.outlier_detection |-> Report.outlier_detection[i].column]
           = Report.dataset_overview.numeric_columns
    /\ IntegerScore(Report.ml_readiness.readiness_score)
    /\ Report.ml_readiness.readiness_level \in {"High", "Moderate", "Low"}
    /\ IntegerScore(Report.data_quality.overall_score)
    /\ Report.data_quality.level \in {"Good", "Fair", "Needs Work", "Poor"}
    /\ Len(Report.dataset_overview.numeric_columns) >= 2
           => Report.scatter_recommendations # <<>>
    /\ Len(Report.strongest_correlations) <= 5

StatsOf(name) ==
    {i \in DOMAIN Report.numeric_stats : Report.numeric_stats[i].column = name}

CategoryStatsOf(name) ==
    {i \in DOMAIN Report.category_stats : Report.category_stats[i].column = name}

ColumnsListed ==
    /\ [i \in DOMAIN Report.columns |-> Report.columns[i].name] = Columns(df)
    /\ \A i \in DOMAIN Report.columns :
          Report.columns[i].detected_type = "numeric" <=> df.cols[i].dtype = "float64"

FullHistogram(stats, c) ==
    /\ Len(stats.histogram) = 10
    /\ SumSeq([b \in DOMAIN stats.histogram |-> IntOf(stats.histogram[b].count)])
           = PresentCount(c)

CategoriesProfiled ==
    \A i \in DOMAIN Report.columns :
        Report.columns[i].detected_type = "categorical"
        => \E j \in CategoryStatsOf(Report.columns[i].name) :
              IntOf(Report.category_stats[j].unique_count)
                  = Cardinality({df.cols[i].cells[r] : r \in DOMAIN df.cols[i].cells}
                                    \ {NaN})

NoMissingRate(entries) ==
    /\ Len(entries) = Len(df.cols)
    /\ \A i \in DOMAIN entries : FEq(entries[i].missing_percentage, Int2F(0))

\* C17: for a table with 0 rows quick_analyze_dataframe returns, without error,
\* row_count 0, missing_percentage 0.0 for every column, duplicate_rows 0 and
\* readiness 100 / High; profile_dataframe reports missing_percentage 0.0 for
\* every column; nothing is divided by the row count.
C17_EmptyTable ==
    /\ (AnalyzeCall /\ NRows(df) = 0) =>
          /\ ~result.raised
          /\ Report.dataset_overview.row_count = 0
          /\ Report.dataset_overview.duplicate_rows = 0
          /\ NoMissingRate(Report.missing_data_insights.columns)
          /\ IntOf(Report.ml_readiness.readiness_score) = 100
          /\ Report.ml_readiness.readiness_level = "High"
    /\ (ProfileCall /\ NRows(df) = 0) =>
          /\ ~result.raised
          /\ NoMissingRate(Report.columns)

\* The report of a table of three columns and no row.
C17_Witness ==
    /\ AnalyzeCall /\ ~result.raised
    /\ NRows(df) = 0 /\ Len(df.cols) = 3
    /\ Len(Report.missing_data_insights.columns) = 3
    /\ IntOf(Report.ml_readiness.readiness_score) = 100

(***************************************************************************)
(* Calls of the aggregators that assign into a frame (get_scatter,         *)
(* get_line_data, get_area_data) on a table of dates, groups and values.   *)
(* After the call df is the table the caller holds: the object it passed,  *)
(* with whatever the call wrote into it.                                   *)
(***************************************************************************)
FrameTables ==
    {ChartTable(rows) :
        rows \in SeqsUpTo({Year2024, Str(<<"x">>)} \X {Str(<<"a">>)} \X {NaN, Int2F(1)},
                          FrameRows)}

\* A filter whose value is no number: float() raises and apply_filter returns
\* the table as it is.
DegradedFilter == Filter("v", ">", <<"x">>)

FrameFilters == ChartFilters \cup {DegradedFilter}

InitFrame ==
    /\ df \in FrameTables
    /\ op = "none"
    /\ args = [selectors |-> <<>>, filter |-> NoFilter]
    /\ result = Ok(<<>>)
    /\ NoServer

FrameScatter ==
    /\ op = "none"
    /\ \E x \in {"v", "nope"}, y \in {"d", "v", "nope"}, flt \in FrameFilters :
          /\ op' = "get_scatter"
          /\ args' = [selectors |-> <<x, y>>, filter |-> flt]
          /\ result' = get_scatter(df, x, y, flt.column, flt.operator, flt.value)
          /\ df' = get_scatter_frames(df, x, y, flt.column, flt.operator, flt.value)["df"]
    /\ UNCHANGED server

FrameLine ==
    /\ op = "none"
    /\ \E date_col \in {"d", "nope"}, value_col \in {"v", "nope"},
          group_col \in Optional({"g", "nope"}), flt \in FrameFilters :
          /\ op' = "get_line_data"
          /\ args' = [selectors |-> <<date_col, value_col, group_col>>, filter |-> flt]
          /\ result' = get_line_data(df, date_col, value_col, group_col,
                                     flt.column, flt.operator, flt.value)
          /\ df' = get_line_data_frames(df, date_col, value_col,
                                         flt.column, flt.operator, flt.value)["df"]
    /\ UNCHANGED server

FrameArea ==
    /\ op = "none"
    /\ \E date_col \in {"d", "nope"}, value_col \in {"v", "nope"},
          stack_col \in {"g", "nope"}, flt \in FrameFilters :
          /\ op' = "get_area_data"
          /\ args' = [selectors |-> <<date_col, value_col, stack_col>>, filter |-> flt]
          /\ result' = get_area_data(df, date_col, value_col, stack_col,
                                     flt.column, flt.operator, flt.value)
          /\ df' = get_area_data_frames(df, date_col, value_col, stack_col,
                                         flt.column, flt.operator, flt.value)["df"]
    /\ UNCHANGED server

NextFrame == FrameScatter \/ FrameLine \/ FrameArea

SpecFrame == InitFrame /\ [][NextFrame]_vars

(***************************************************************************)
(* C20.  The caller's table is left as it was.                             *)
(***************************************************************************)
\* C20: no chart aggregator changes the table it is given: after any call,
\* whether it returns a payload or fails, with or without a filter, the
\* caller's table has the same columns, rows, order and cell values as before.
C20_TableNotMutated == [][df' = df]_vars

\* get_line_data under a filter that degrades to identity: the frame it works
\* on is the caller's, the dates were parsed into the points of the payload,
\* and the caller's date column is still text.
C20_Witness ==
    /\ op = "get_line_data" /\ ~result.raised
    /\ args.filter = DegradedFilter
    /\ ReturnsArgument(df, args.filter.column, args.filter.operator, args.filter.value)
    /\ "data" \in DOMAIN result.value /\ Len(result.value.data) = 1
    /\ NRows(df) = 2
    /\ Series(df, "d").dtype = "object"
    /\ \E i \in DOMAIN Series(df, "d").cells : Series(df, "d").cells[i] = Str(<<"2", "0", "2", "4">>)

(***************************************************************************)
(* C21.  Bar chart: one category per distinct value.                       *)
(***************************************************************************)
BarCall == op = "get_bar_counts"

\* C21: get_bar_counts returns one category per distinct non-missing value of
\* the column, no value twice, each with its frequency, ordered by count
\* non-increasing; categories and counts have equal length and the counts sum
\* to the number of non-missing cells.
C21_BarCounts ==
    BarCall =>
        /\ ~result.raised
        /\ Len(result.value.categories) = Len(result.value.counts)
        /\ Len(result.value.categories) = Cardinality(DistinctPresent)
        /\ \A v \in DistinctPresent :
              \E i \in DOMAIN result.value.categories : result.value.categories[i] = AsStr(v)
        /\ \A i \in DOMAIN result.value.categories :
              /\ IntOf(result.value.counts[i]) = CountIn(Present, result.value.categories[i])
              /\ IntOf(result.value.counts[i]) >= 1
        /\ \A i, j \in DOMAIN result.value.categories :
              i # j => result.value.categories[i] # result.value.categories[j]
        /\ \A i, j \in DOMAIN result.value.counts :
              i < j => IntOf(result.value.counts[i]) >= IntOf(result.value.counts[j])
        /\ PayloadSum(result.value.counts) = Len(Present)

\* Four cells, one missing, the value that comes second being the frequent one.
C21_Witness ==
    /\ BarCall /\ ~result.raised
    /\ Len(Selected.cells) = 4 /\ Len(Present) = 3
    /\ Cardinality(DistinctPresent) = 2
    /\ result.value.categories[1] = AsStr(Present[2])
    /\ result.value.categories[1] # AsStr(Present[1])
    /\ IntOf(result.value.counts[1]) = 2

(***************************************************************************)
(* Calls of quick_analyze_dataframe on a table of two and more numeric     *)
(* columns, enough of them for more than five pairs.                       *)
(***************************************************************************)
RankKinds == {"ones", "up", "down", "bent", "gap"}

RankNames == <<"a", "b", "c", "d", "e">>

RankTable(layout, rows) ==
    DataFrame([i \in 1..rows |-> i],
              [c \in DOMAIN layout |-> KindColumn(RankNames[c], layout[c], rows)])

RankTables ==
    {RankTable(layout, AnalyzeRows) :
        layout \in UNION {[1..n -> RankKinds] : n \in 2..RankColumns}}

InitRank ==
    /\ df \in RankTables
    /\ op = "none"
    /\ args = [column |-> None, filter |-> NoFilter]
    /\ result = Ok(<<>>)
    /\ NoServer

SpecRank == InitRank /\ [][QuickAnalyze]_vars

(***************************************************************************)
(* C22.  The ranked correlations.                                          *)
(***************************************************************************)
\* The list step 4 ranks, all_correlations.
Ranked == CorrelationRanking(StoredNumeric)

NumericPosition(name) ==
    CHOOSE i \in DOMAIN StoredNumeric : StoredNumeric[i].name = name

\* The pairs of numeric columns that have a correlation.
Correlated ==
    {p \in (DOMAIN StoredNumeric) \X (DOMAIN StoredNumeric) :
        /\ p[1] < p[2]
        /\ ~IsNaN(Pearson(StoredNumeric[p[1]].cells, StoredNumeric[p[2]].cells))}

PairOf(entry) == <<NumericPosition(entry.column_a), NumericPosition(entry.column_b)>>

RankedProperly(list) ==
    /\ \A i \in DOMAIN list :
          /\ PairOf(list[i]) \in Correlated
          /\ list[i].correlation.ty = "float"
    /\ \A i, j \in DOMAIN list : i # j => PairOf(list[i]) # PairOf(list[j])
    /\ \A i, j \in DOMAIN list :
          i < j => FGe(FAbs(list[i].correlation.num), FAbs(list[j].correlation.num))

\* C22: the ranked list has each pair of distinct numeric columns at most once,
\* column_a before column_b in numeric-column order, sorted by |correlation|
\* non-increasing; strongest_correlations is its first min(5, length) entries
\* and the recommendations are those of the full list.
C22_RankedCorrelations ==
    AnalyzeCall =>
        /\ ~result.raised
        /\ RankedProperly(Ranked)
        /\ Len(Ranked) = Cardinality(Correlated)
        /\ Len(Report.strongest_correlations)
               = (IF Len(Ranked) < 5 THEN Len(Ranked) ELSE 5)
        /\ \A i \in DOMAIN Report.strongest_correlations :
              Report.strongest_correlations[i] = Ranked[i]
        /\ Report.scatter_recommendations
               = compute_scatter_recommendations(Names(StoredNumeric), Ranked)

\* Four columns, six pairs: the weakest pair is cut from the report.
C22_Witness ==
    /\ AnalyzeCall /\ ~result.raised
    /\ Len(StoredNumeric) = 4 /\ Cardinality(Correlated) = 6
    /\ Len(Report.strongest_correlations) = 5
    /\ FGt(FAbs(Report.strongest_correlations[1].correlation.num),
           FAbs(Report.strongest_correlations[5].correlation.num))
    /\ FGt(FAbs(Report.strongest_correlations[5].correlation.num),
           FAbs(Ranked[6].correlation.num))
    /\ FLt(Report.strongest_correlations[2].correlation.num, Int2F(0))

(***************************************************************************)
(* C23.  The filter on a non-numeric column.                               *)
(***************************************************************************)
\* The literal, as plain text, is a substring of the text, letter case aside.
PlainSubstring(literal, text) ==
    \E at \in 1..(Len(text) + 1) :
        /\ at + Len(literal) - 1 <= Len(text)
        /\ \A i \in DOMAIN literal : LowerChar(literal[i]) = LowerChar(text[at + i - 1])

Lexicographic(operator, text, literal) ==
    CASE operator = ">"  -> StrLt(literal, text)
      [] operator = "<"  -> StrLt(text, literal)
      [] operator = ">=" -> ~StrLt(text, literal)
      [] operator = "<=" -> ~StrLt(literal, text)
      [] operator = "==" -> text = literal
      [] operator = "!=" -> text # literal
      [] operator = "contains" -> PlainSubstring(literal, text)

\* The rows a filter on the text column may keep: a row with a present cell is
\* kept exactly when its text passes the test; a row with a missing cell is
\* not kept by `contains` or by ==.
KeptAsStated(keep) ==
    LET cells == Series(df, args.filter.column).cells
    IN  \A i \in DOMAIN cells :
           IF IsMissing(cells[i])
           THEN args.filter.operator \in {"contains", "=="} => ~keep[i]
           ELSE keep[i] <=> Lexicographic(args.filter.operator, cells[i].s, args.filter.value)

\* C23 as stated: on a non-numeric column apply_filter keeps, in original
\* order, exactly the rows whose cell text compares to the literal
\* lexicographically for >, <, >=, <=, == and !=, and for `contains` the rows
\* whose text contains the literal, as plain text, as a case-insensitive
\* substring; a missing cell is never kept by `contains` or by ==.
C23_AsStated ==
    (/\ FilterOnColumn("object")
     /\ args.filter.operator \in {">", "<", ">=", "<=", "==", "!=", "contains"})
    => /\ ~result.raised
       /\ \E keep \in [DOMAIN df.index -> BOOLEAN] :
             KeptAsStated(keep) /\ result.value = TakeRows(df, keep)

\* The same on the rows and literals where the text of a cell is all there is:
\* no missing cell in the column, no "(" in the literal of `contains`.
C23_PresentCellsPlainLiteral ==
    (/\ FilterOnColumn("object")
     /\ args.filter.operator \in {">", "<", ">=", "<=", "==", "!=", "contains"}
     /\ \A i \in DOMAIN Series(df, "s").cells : ~IsMissing(Series(df, "s").cells[i])
     /\ args.filter.operator = "contains" => ~Contains(args.filter.value, "("))
    => /\ ~result.raised
       /\ \E keep \in [DOMAIN df.index -> BOOLEAN] :
             KeptAsStated(keep) /\ result.value = TakeRows(df, keep)

(***************************************************************************)
(* C24.  The issues of the data-quality score.                             *)
(***************************************************************************)
Issues == result.value.data_quality.issues

\* The columns, by name and in order, whose rate passes the test.
RECURSIVE NamesWhere(_, _, _)
NamesWhere(rates, hits, i) ==
    IF i > Len(rates) THEN <<>>
    ELSE (IF i \in hits THEN <<ColumnName(i)>> ELSE <<>>) \o NamesWhere(rates, hits, i + 1)

HighMissingColumns ==
    NamesWhere(args.missing_percentages,
               {i \in DOMAIN args.missing_percentages :
                   FGt(args.missing_percentages[i], Int2F(30))}, 1)

ModerateMissingColumns ==
    NamesWhere(args.missing_percentages,
               {i \in DOMAIN args.missing_percentages :
                   /\ FGt(args.missing_percentages[i], Int2F(10))
                   /\ FLe(args.missing_percentages[i], Int2F(30))}, 1)

HighOutlierColumns ==
    NamesWhere(args.outlier_percentages,
               {i \in DOMAIN args.outlier_percentages :
                   FGt(args.outlier_percentages[i], Int2F(5))}, 1)

DuplicatesTriggered == args.total_rows > 0 /\ FGt(DuplicatePct, Int2F(5))

Stated(type, severity, affected) ==
    [type |-> type, severity |-> severity, affected_columns |-> affected]

\* The entries the triggered conditions call for.
IssuesCalledFor ==
    (IF HighMissingColumns = <<>> THEN {}
     ELSE {Stated("missing_data",
                  IF Len(HighMissingColumns) > 2 THEN "critical" ELSE "warning",
                  HighMissingColumns)})
    \cup (IF ModerateMissingColumns = <<>> THEN {}
          ELSE {Stated("missing_data", "info", ModerateMissingColumns)})
    \cup (IF ~DuplicatesTriggered THEN {}
          ELSE {Stated("duplicates",
                       IF FGt(DuplicatePct, Int2F(20)) THEN "critical" ELSE "warning",
                       <<>>)})
    \cup (IF HighOutlierColumns = <<>> THEN {}
          ELSE {Stated("outliers", "info", HighOutlierColumns)})

\* What a listed entry takes off the score.
WholePenalty(issue) ==
    CASE issue.type = "missing_data" /\ issue.severity # "info" ->
             AtMost(10 * Len(issue.affected_columns), 30)
      [] issue.type = "missing_data" /\ issue.severity = "info" ->
             AtMost(3 * Len(issue.affected_columns), 15)
      [] issue.type = "outliers" -> AtMost(2 * Len(issue.affected_columns), 10)
      [] OTHER -> 0

ListedCharge ==
    IF \E i \in DOMAIN Issues : Issues[i].type = "duplicates"
    THEN Capped(DuplicatePct, Int2F(20)) ELSE Int2F(0)

\* C24: compute_data_quality_score lists exactly one entry for each triggered
\* condition and none for the others, with the severity and the affected
\* columns of the condition, at most 4 entries in all, and the score is 100
\* less the penalties of the listed entries and of no other.
C24_IssuesMatchPenalties ==
    ScoreCall =>
        /\ {Stated(Issues[i].type, Issues[i].severity, Issues[i].affected_columns) :
               i \in DOMAIN Issues} = IssuesCalledFor
        /\ Len(Issues) = Cardinality(IssuesCalledFor)
        /\ Len(Issues) <= 4
        /\ NearestInteger(
               IntOf(result.value.data_quality.overall_score),
               Clamped(Less(Int2F(100 - SumSeq([i \in DOMAIN Issues |->
                                                  WholePenalty(Issues[i])])),
                            ListedCharge)))

\* All four conditions at once: three columns above 30%, one in the band,
\* 5 duplicate rows of 20, one column with outliers.
C24_Witness ==
    /\ ScoreCall
    /\ Len(Issues) = 4
    /\ Len(HighMissingColumns) = 3 /\ Len(ModerateMissingColumns) = 1
    /\ Len(HighOutlierColumns) = 1
    /\ args.duplicate_rows = 5 /\ args.total_rows = 20
    /\ Issues[1].severity = "critical" /\ Issues[3].severity = "critical"
    /\ IntOf(result.value.data_quality.overall_score) = 45

(***************************************************************************)
(* C25.  Histogram: the bin edges span the present values.                 *)
(***************************************************************************)
Edges == result.value.bins

\* Consecutive edges are the same distance apart.
EquallySpaced(edges) ==
    \A j \in 2..(Len(edges) - 1) :
        FEq(FSub(edges[j + 1].num, edges[j].num), FSub(edges[j].num, edges[j - 1].num))

\* The edges are equally spaced, the first is lo and the last is hi.
EdgesSpan(lo, hi) ==
    /\ ~result.raised
    /\ Len(Edges) = args.bins + 1
    /\ EquallySpaced(Edges)
    /\ FEq(Edges[1].num, lo)
    /\ FEq(Edges[args.bins + 1].num, hi)

\* C25 as stated: for any non-empty numeric input the bin edges get_histogram
\* returns are equally spaced, start at the minimum and end at the maximum of
\* the present values, also when all present values are equal.
C25_AsStated ==
    HistogramCall /\ Len(Present) >= 1 =>
        EdgesSpan(FMinSeq(Present), FMaxSeq(Present))

\* What the code does: finite values that are not all equal span [min, max];
\* finite values all equal to v span [v - 1/2, v + 1/2]; an infinite value
\* makes the call fail.
C25_EdgesOfOuterRange ==
    HistogramCall /\ Len(Present) >= 1 =>
        IF ~AllFinite(Present)
        THEN result.raised
        ELSE IF FEq(FMinSeq(Present), FMaxSeq(Present))
        THEN EdgesSpan(FSub(FMinSeq(Present), Half), FAdd(FMaxSeq(Present), Half))
        ELSE EdgesSpan(FMinSeq(Present), FMaxSeq(Present))

\* Two equal present values, two bins.
C25_AllEqual ==
    /\ HistogramCall /\ ~result.raised /\ args.bins = 2
    /\ Len(Present) = 2 /\ FEq(Present[1], Present[2])


(***************************************************************************)
(* C26.  Quick analysis outliers agree with the box plot.                  *)
(***************************************************************************)
\* The outliers list get_boxplot returns for the column of this table.
BoxplotOutliers(name) == get_boxplot(df, name, None, None, NoValue).value.outliers

\* 100 * count / present rounded to 2 decimals, 0.0 when nothing is present.
StatedPercentage(count, present) ==
    IF present = 0 THEN Int2F(0) ELSE Round2(Fin(100 * count, present))

\* C26: for every numeric column the quick analysis reports, as outlier_count,
\* the number of entries of get_boxplot's outliers list for the same column
\* of the same table, and as outlier_percentage 100 * outlier_count / (number
\* of non-missing values) rounded to 2 decimals, 0 and 0.0 when the column
\* has no non-missing value.
C26_OutliersAgree ==
    AnalyzeCall /\ ~result.raised =>
        /\ Len(Report.outlier_detection) = Len(StoredNumeric)
        /\ \A i \in DOMAIN StoredNumeric :
              LET entry == Report.outlier_detection[i]
                  name == StoredNumeric[i].name
              IN  /\ entry.column = name
                  /\ ~get_boxplot(df, name, None, None, NoValue).raised
                  /\ IntOf(entry.outlier_count) = Len(BoxplotOutliers(name))
                  /\ FEq(entry.outlier_percentage,
                         StatedPercentage(IntOf(entry.outlier_count),
                                          PresentCount(StoredNumeric[i])))
                  /\ PresentCount(StoredNumeric[i]) = 0 =>
                         IntOf(entry.outlier_count) = 0

\* One column with one outlier among four values (25.0 percent), another
\* with no present value, a third where every value sits on both fences.
C26_Witness ==
    /\ AnalyzeCall /\ ~result.raised
    /\ \E i \in DOMAIN StoredNumeric :
          /\ PresentCount(StoredNumeric[i]) = 4
          /\ Len(BoxplotOutliers(StoredNumeric[i].name)) = 1
          /\ IntOf(Report.outlier_detection[i].outlier_count) = 1
          /\ FEq(Report.outlier_detection[i].outlier_percentage, Int2F(25))
    /\ \E i \in DOMAIN StoredNumeric :
          /\ PresentCount(StoredNumeric[i]) = 0
          /\ IntOf(Report.outlier_detection[i].outlier_count) = 0
    /\ \E i \in DOMAIN StoredNumeric :
          /\ PresentCount(StoredNumeric[i]) = 4
          /\ IntOf(Report.outlier_detection[i].outlier_count) = 0


(***************************************************************************)
(* The HTTP server: routes/projects.py, routes/datasets.py,                *)
(* routes/upload.py and routes/persistence.py over the database, the file  *)
(* store and the in-memory store.  A synchronous handler runs in a thread  *)
(* of its own, so other requests run between its database statements; an   *)
(* async handler gives way to other requests at its `await` only.          *)
(***************************************************************************)
analysis == <<df, op, args, result>>

\* generate_short_id: one of the base62 strings of length 6, numbered.
IdPool == 1..MaxIds

\* No identifier: an absent path parameter, a field not yet set.
NoId == 0

\* generate_unique_id: the outcomes of up to 100 random draws.  Any id that
\* is not in existing_ids can come back; when existing_ids is not empty all
\* the draws may fall into it, and the call raises.
generate_unique_id(existing_ids) ==
    {Ok(new_id) : new_id \in IdPool \ existing_ids}
    \cup (IF existing_ids # {}
          THEN {Raise("RuntimeError", "Failed to generate unique ID after max attempts")}
          ELSE {})

\* A row of table "projects".
Project(project_id, name) == [project_id |-> project_id, name |-> name]

\* The attributes of class Dataset: its columns and the relationship.
DatasetAttributes ==
    {"id", "dataset_id", "project_id", "filename", "file_path", "uploaded_at", "project"}

\* Dataset(**kwargs), the declarative constructor: a keyword that is not an
\* attribute of the class is a TypeError.
Dataset(kwargs) ==
    IF DOMAIN kwargs \subseteq DatasetAttributes
    THEN Ok(kwargs)
    ELSE Raise("TypeError", "invalid keyword argument for Dataset")

\* A row of table "canvas_states".
CanvasState(project_id, nodes, edges) ==
    [project_id |-> project_id, nodes |-> nodes, edges |-> edges]

\* db.add(row); db.commit(): the unique index on `unique` rejects a second
\* row with the same key.
Insert(table, row, unique) ==
    IF \E i \in DOMAIN table : table[i][unique] = row[unique]
    THEN Raise("IntegrityError", unique)
    ELSE Ok(Append(table, row))

\* db.query(Model).filter(Model.column == value).first()
First(table, column, value) ==
    LET hits == SelectSeq(table, LAMBDA row : row[column] = value)
    IN  IF hits = <<>> THEN <<>> ELSE <<hits[1]>>

\* get_existing_project_ids
get_existing_project_ids == {projects[i].project_id : i \in DOMAIN projects}

\* get_existing_dataset_ids: the dataset_ids of this project only.
get_existing_dataset_ids(project_id) ==
    {datasets[i].dataset_id : i \in {j \in DOMAIN datasets : datasets[j].project_id = project_id}}

\* list_datasets (GET /projects/{project_id}/datasets) of an existing project.
list_datasets(project_id) ==
    SelectSeq(datasets, LAMBDA row : row.project_id = project_id)

\* An uploaded file: its name, and its content as the number of fields on
\* each line, -1 for a line with a byte that is not UTF-8.
UploadFile(filename, content) == [filename |-> filename, content |-> content]

NoFile == UploadFile(<<>>, <<>>)

CsvName == <<"d", ".", "c", "s", "v">>
TxtName == <<"d", ".", "t", "x", "t">>

\* filename.endswith(".csv")
endswith(filename, suffix) ==
    /\ Len(filename) >= Len(suffix)
    /\ SubSeq(filename, Len(filename) - Len(suffix) + 1, Len(filename)) = suffix

Uploads ==
    {UploadFile(CsvName, <<2, 2>>), UploadFile(CsvName, <<>>), UploadFile(TxtName, <<2, 2>>),
     UploadFile(<<>>, <<2, 2>>), UploadFile(CsvName, <<2>>), UploadFile(CsvName, <<2, -1>>),
     UploadFile(CsvName, <<2, 3>>)}

\* get_local_storage_path / get_cloudinary_public_id: one file per pair.
StoragePath(project_id, dataset_id) == <<project_id, dataset_id>>

\* save_file: writes the file, replacing one already there.
save_file(store, project_id, dataset_id) == store \cup {StoragePath(project_id, dataset_id)}

\* Responses.  An exception no handler catches is answered with status 500.
Body(project_id, dataset_id) == [project_id |-> project_id, dataset_id |-> dataset_id]
Response(body) == [status |-> 200, detail |-> "", body |-> body]
HTTPException(status_code, detail) ==
    [status |-> status_code, detail |-> detail, body |-> Body(NoId, NoId)]
Unhandled(outcome) == HTTPException(500, outcome.exc)
NoResponse == HTTPException(0, "")

\* A request slot: the route being served, where its handler stands, its
\* parameters, the id it generated and its response.
Request(route, pc, project_id, file, new_id, response) ==
    [route |-> route, pc |-> pc, project_id |-> project_id, file |-> file,
     new_id |-> new_id, response |-> response]

NoRequest == Request("none", "idle", NoId, NoFile, NoId, NoResponse)

Done(request, response) == [request EXCEPT !.pc = "done", !.response = response]

\* contents.decode("utf-8")
decode(content) ==
    IF \E i \in DOMAIN content : content[i] = -1
    THEN Raise("UnicodeDecodeError", "") ELSE Ok(content)

\* pd.read_csv(StringIO(decoded)): the number of data rows.
read_csv(lines) ==
    IF lines = <<>> THEN Raise("EmptyDataError", "")
    ELSE IF \E i \in DOMAIN lines : lines[i] > lines[1] THEN Raise("ParserError", "")
    ELSE Ok(Len(lines) - 1)

\* dataframe_store.project_exists
project_exists(project_id) == project_id \in DOMAIN _projects

\* dataframe_store.save_dataframe: the stores it can leave, with the id.
save_dataframe(project_id, frame) ==
    IF ~project_exists(project_id) THEN {Raise("KeyError", "Project not found")}
    ELSE {IF chosen.raised THEN chosen
          ELSE Ok([dataset_id |-> chosen.value,
                   store |-> [_projects EXCEPT ![project_id] =
                                 (chosen.value :> frame) @@ _projects[project_id]]]) :
             chosen \in generate_unique_id(DOMAIN _projects[project_id])}

\* dataframe_store.get_dataframe
get_dataframe(project_id, dataset_id) ==
    IF ~project_exists(project_id) THEN Raise("KeyError", "Project not found")
    ELSE IF dataset_id \notin DOMAIN _projects[project_id]
    THEN Raise("KeyError", "Dataset not found")
    ELSE Ok(_projects[project_id][dataset_id])

(***************************************************************************)
(* Requests served side by side.                                           *)
(***************************************************************************)
InitApi ==
    /\ df = DataFrame(<<>>, <<>>)
    /\ op = "none"
    /\ args = [column |-> None, filter |-> NoFilter]
    /\ result = Ok(<<>>)
    /\ projects = <<>>
    /\ datasets = <<>>
    /\ canvas_states = <<>>
    /\ files = {}
    /\ _projects = <<>>
    /\ requests = [r \in 1..MaxRequests |-> NoRequest]

\* create_project, lines 21-22: the ids in the table, and a new one.
CreateProjectBegin ==
    \E r \in DOMAIN requests, chosen \in generate_unique_id(get_existing_project_ids) :
        /\ requests[r].pc = "idle"
        /\ requests' = [requests EXCEPT ![r] =
               IF chosen.raised
               THEN Done(Request("create_project", "idle", NoId, NoFile, NoId, NoResponse),
                         Unhandled(chosen))
               ELSE Request("create_project", "commit", NoId, NoFile, chosen.value,
                            NoResponse)]
        /\ UNCHANGED <<analysis, projects, datasets, canvas_states, files, _projects>>

\* create_project, lines 24-32: the row is added and committed.
CreateProjectCommit ==
    \E r \in DOMAIN requests :
        /\ requests[r].route = "create_project" /\ requests[r].pc = "commit"
        /\ LET committed == Insert(projects, Project(requests[r].new_id, "name"), "project_id")
           IN  IF committed.raised
               THEN /\ requests' = [requests EXCEPT ![r] = Done(@, Unhandled(committed))]
                    /\ UNCHANGED projects
               ELSE /\ requests' = [requests EXCEPT ![r] =
                           Done(@, Response(Body(requests[r].new_id, NoId)))]
                    /\ projects' = committed.value
        /\ UNCHANGED <<analysis, datasets, canvas_states, files, _projects>>

\* upload_dataset, lines 28-37: the project is looked up and the file name
\* checked; the handler then awaits the content.
UploadDatasetBegin ==
    \E r \in DOMAIN requests, project_id \in IdPool, file \in Uploads :
        /\ requests[r].pc = "idle"
        /\ LET request == Request("upload_dataset", "read", project_id, file, NoId, NoResponse)
           IN  requests' = [requests EXCEPT ![r] =
                   IF First(projects, "project_id", project_id) = <<>>
                   THEN Done(request, HTTPException(404, "Project not found"))
                   ELSE IF file.filename = <<>> \/ ~endswith(file.filename, <<".", "c", "s", "v">>)
                   THEN Done(request, HTTPException(400, "Only CSV files are accepted"))
                   ELSE request]
        /\ UNCHANGED <<analysis, projects, datasets, canvas_states, files, _projects>>

\* upload_dataset, lines 38-60: the content is checked, an id generated, the
\* file saved and the record built, added and committed.
UploadDatasetFinish ==
    \E r \in DOMAIN requests :
        /\ requests[r].route = "upload_dataset" /\ requests[r].pc = "read"
        /\ LET project_id == requests[r].project_id
               file == requests[r].file
           IN  IF file.content = <<>>
               THEN /\ requests' = [requests EXCEPT ![r] =
                           Done(@, HTTPException(400, "Empty file uploaded"))]
                    /\ UNCHANGED <<files, datasets>>
               ELSE \E chosen \in generate_unique_id(get_existing_dataset_ids(project_id)) :
                       IF chosen.raised
                       THEN /\ requests' = [requests EXCEPT ![r] = Done(@, Unhandled(chosen))]
                            /\ UNCHANGED <<files, datasets>>
                       ELSE LET dataset_id == chosen.value
                                dataset == Dataset([dataset_id |-> dataset_id,
                                                    project_id |-> project_id,
                                                    filename |-> file.filename,
                                                    file_path |-> StoragePath(project_id, dataset_id),
                                                    file_size |-> Len(file.content)])
                                committed == Insert(datasets, dataset.value, "dataset_id")
                            IN  /\ files' = save_file(files, project_id, dataset_id)
                                /\ IF dataset.raised
                                   THEN /\ requests' = [requests EXCEPT ![r] =
                                               Done([@ EXCEPT !.new_id = dataset_id],
                                                    Unhandled(dataset))]
                                        /\ UNCHANGED datasets
                                   ELSE IF committed.raised
                                   THEN /\ requests' = [requests EXCEPT ![r] =
                                               Done([@ EXCEPT !.new_id = dataset_id],
                                                    Unhandled(committed))]
                                        /\ UNCHANGED datasets
                                   ELSE /\ requests' = [requests EXCEPT ![r] =
                                               Done([@ EXCEPT !.new_id = dataset_id],
                                                    Response(Body(project_id, dataset_id)))]
                                        /\ datasets' = committed.value
        /\ UNCHANGED <<analysis, projects, canvas_states, _projects>>

\* upload_csv (POST /upload), the whole handler.
UploadCsv ==
    \E r \in DOMAIN requests, project_id \in IdPool, file \in Uploads :
        /\ requests[r].pc = "idle"
        /\ LET request == Request("upload_csv", "idle", project_id, file, NoId, NoResponse)
               decoded == decode(file.content)
               parsed == read_csv(decoded.value)
           IN  IF ~project_exists(project_id)
               THEN /\ requests' = [requests EXCEPT ![r] =
                           Done(request, HTTPException(404, "Project not found"))]
                    /\ UNCHANGED _projects
               ELSE IF file.filename = <<>> \/ ~endswith(file.filename, <<".", "c", "s", "v">>)
               THEN /\ requests' = [requests EXCEPT ![r] =
                           Done(request, HTTPException(400, "Invalid file type"))]
                    /\ UNCHANGED _projects
               ELSE IF file.content = <<>>
               THEN /\ requests' = [requests EXCEPT ![r] =
                           Done(request, HTTPException(400, "Empty file uploaded."))]
                    /\ UNCHANGED _projects
               ELSE IF decoded.raised
               THEN /\ requests' = [requests EXCEPT ![r] =
                           Done(request, HTTPException(400, "File encoding error"))]
                    /\ UNCHANGED _projects
               ELSE IF parsed.raised
               THEN /\ requests' = [requests EXCEPT ![r] =
                           Done(request, HTTPException(400, "Failed to parse CSV file."))]
                    /\ UNCHANGED _projects
               ELSE IF parsed.value = 0
               THEN /\ requests' = [requests EXCEPT ![r] =
                           Done(request, HTTPException(400, "CSV file contains no data."))]
                    /\ UNCHANGED _projects
               ELSE \E saved \in save_dataframe(project_id, parsed.value) :
                       IF saved.raised
                       THEN /\ requests' = [requests EXCEPT ![r] =
                                   Done(request, Unhandled(saved))]
                            /\ UNCHANGED _projects
                       ELSE /\ requests' = [requests EXCEPT ![r] =
                                   Done([request EXCEPT !.new_id = saved.value.dataset_id],
                                        Response(Body(project_id, saved.value.dataset_id)))]
                            /\ _projects' = saved.value.store
        /\ UNCHANGED <<analysis, projects, datasets, canvas_states, files>>

NextApi ==
    \/ CreateProjectBegin
    \/ CreateProjectCommit
    \/ UploadDatasetBegin
    \/ UploadDatasetFinish
    \/ UploadCsv

SpecApi == InitApi /\ [][NextApi]_vars

(***************************************************************************)
(* C27.  Dataset upload: the file store and the database move together.    *)
(***************************************************************************)
UploadsAtRest ==
    \A r \in DOMAIN requests :
        requests[r].route = "upload_dataset" => requests[r].pc = "done"

HasFile(project_id, dataset_id) == StoragePath(project_id, dataset_id) \in files

HasRecord(dataset_id) == First(datasets, "dataset_id", dataset_id) # <<>>

\* C27 as stated: after any upload request, successful or failed, a stored
\* file exists for (project_id, dataset_id) exactly when a dataset record
\* with that dataset_id exists; a request to an existing project with a
\* non-empty .csv file ends with both present and the dataset listed.
C27_AsStated ==
    UploadsAtRest =>
        /\ \A project_id \in IdPool, dataset_id \in IdPool :
              HasFile(project_id, dataset_id) <=> HasRecord(dataset_id)
        /\ \A r \in DOMAIN requests :
              /\ requests[r].route = "upload_dataset"
              /\ requests[r].response.status # 404
              /\ endswith(requests[r].file.filename, <<".", "c", "s", "v">>)
              /\ requests[r].file.content # <<>>
              => /\ requests[r].response.status = 200
                 /\ HasFile(requests[r].project_id, requests[r].new_id)
                 /\ \E i \in DOMAIN list_datasets(requests[r].project_id) :
                       list_datasets(requests[r].project_id)[i].dataset_id
                           = requests[r].new_id

\* What the code does: every upload that passes the checks saves its file
\* and then fails to build the record, so files have no record.
C27_FileWithoutRecord ==
    /\ datasets = <<>>
    /\ \A r \in DOMAIN requests :
          requests[r].route = "upload_dataset" /\ requests[r].pc = "done"
          => requests[r].response.status \in {400, 404, 500}


(***************************************************************************)
(* C28.  Identifiers under concurrent requests.                            *)
(***************************************************************************)
\* The request has generated an id for a row of the given route.
Chose(r, route) == requests[r].route = route /\ requests[r].new_id # NoId

\* The request has generated its id and has not committed its row yet.
Committing(r) == Chose(r, "create_project") /\ requests[r].pc = "commit"

\* The request was answered 500 because the unique index refused its row.
IdInUse(r) ==
    /\ requests[r].pc = "done"
    /\ requests[r].response.status = 500
    /\ requests[r].response.detail = "IntegrityError"

\* C28 as stated: under every interleaving of POST /projects and dataset
\* uploads, the id chosen for a new project differs from every project_id
\* committed already or being committed by another request, the id chosen
\* for a new dataset differs from every dataset_id of every project, and no
\* request fails because the id it chose is in use.
C28_AsStated ==
    /\ \A r \in DOMAIN requests :
          Committing(r) =>
              /\ requests[r].new_id \notin get_existing_project_ids
              /\ \A q \in DOMAIN requests \ {r} :
                    Committing(q) => requests[q].new_id # requests[r].new_id
    /\ \A r, q \in DOMAIN requests :
          r # q /\ Chose(r, "upload_dataset") /\ Chose(q, "upload_dataset")
          => requests[r].new_id # requests[q].new_id
    /\ \A r \in DOMAIN requests : ~IdInUse(r)

\* Two POST /projects requests read the table before either commits, draw
\* the same id, and the second commit is refused.
C28_SecondCommitRefused ==
    \E r, q \in DOMAIN requests :
        /\ r # q /\ IdInUse(r)
        /\ requests[q].route = "create_project"
        /\ requests[q].response.status = 200
        /\ requests[q].response.body.project_id = requests[r].new_id

(***************************************************************************)
(* C30.  POST /upload for a project created by POST /projects.             *)
(***************************************************************************)
\* The project ids POST /projects has returned.
Returned ==
    {requests[r].response.body.project_id :
        r \in {q \in DOMAIN requests : /\ requests[q].route = "create_project"
                                       /\ requests[q].response.status = 200}}

\* A non-empty, parsable UTF-8 .csv file with at least one data row.
Parsable(file) ==
    /\ endswith(file.filename, <<".", "c", "s", "v">>)
    /\ file.content # <<>>
    /\ ~decode(file.content).raised
    /\ ~read_csv(file.content).raised
    /\ read_csv(file.content).value > 0

\* C30 as stated: POST /upload with a project_id returned by POST /projects
\* and a non-empty, parsable UTF-8 .csv file succeeds and returns that
\* project_id with a new dataset_id that get_dataframe retrieves.
C30_AsStated ==
    \A r \in DOMAIN requests :
        /\ requests[r].route = "upload_csv" /\ requests[r].pc = "done"
        /\ requests[r].project_id \in Returned
        /\ Parsable(requests[r].file)
        => /\ requests[r].response.status = 200
           /\ requests[r].response.body.project_id = requests[r].project_id
           /\ ~get_dataframe(requests[r].project_id,
                             requests[r].response.body.dataset_id).raised

\* What the code does: no route fills the in-memory store, so POST /upload
\* answers 404 whatever the project.
C30_AlwaysNotFound ==
    /\ _projects = <<>>
    /\ \A r \in DOMAIN requests :
          requests[r].route = "upload_csv" /\ requests[r].pc = "done"
          => requests[r].response.status = 404


(***************************************************************************)
(* The canvas of a project (routes/persistence.py), one request after      *)
(* another.                                                                *)
(***************************************************************************)
\* CanvasStateCreate / CanvasStateResponse: nodes and edges.
Canvas(nodes, edges) == [nodes |-> nodes, edges |-> edges]

Payloads ==
    {Canvas(<<>>, <<>>), Canvas(<<"n1">>, <<>>), Canvas(<<"n1", "n2">>, <<"e1">>)}

\* The position of the row .first() returns.
Position(table, column, value) ==
    CHOOSE i \in DOMAIN table :
        /\ table[i][column] = value
        /\ \A j \in 1..(i - 1) : table[j][column] # value

\* get_canvas_state: the stored row, or an empty canvas.
get_canvas_state(project_id) ==
    LET state == First(canvas_states, "project_id", project_id)
    IN  IF state = <<>> THEN Response(CanvasState(project_id, <<>>, <<>>))
        ELSE Response(state[1])

\* save_canvas_state: the table after the commit, and the response.  A new
\* row needs its project: project_id is a foreign key to projects.
save_canvas_state(project_id, data) ==
    LET state == First(canvas_states, "project_id", project_id)
        row == CanvasState(project_id, data.nodes, data.edges)
        committed == Insert(canvas_states, row, "project_id")
    IN  IF state # <<>>
        THEN [table |-> [canvas_states EXCEPT
                            ![Position(canvas_states, "project_id", project_id)] = row],
              response |-> Response(row)]
        ELSE IF First(projects, "project_id", project_id) = <<>>
        THEN [table |-> canvas_states,
              response |-> Unhandled(Raise("IntegrityError", "project_id"))]
        ELSE IF committed.raised
        THEN [table |-> canvas_states, response |-> Unhandled(committed)]
        ELSE [table |-> committed.value, response |-> Response(row)]

\* Mutant of clear_canvas_state: the delete is not limited to the project.
clear_canvas_state_all(project_id) ==
    <<>>

\* clear_canvas_state: the table after db.delete(state) and the commit.
clear_canvas_state(project_id) ==
    IF First(canvas_states, "project_id", project_id) = <<>> THEN canvas_states
    ELSE LET i == Position(canvas_states, "project_id", project_id)
         IN  SubSeq(canvas_states, 1, i - 1)
             \o SubSeq(canvas_states, i + 1, Len(canvas_states))

CanvasArgs(project_id, data) == [project_id |-> project_id, data |-> data]

InitCanvas ==
    /\ df = DataFrame(<<>>, <<>>)
    /\ op = "none"
    /\ args = CanvasArgs(NoId, Canvas(<<>>, <<>>))
    /\ result = NoResponse
    /\ projects = <<>>
    /\ datasets = <<>>
    /\ canvas_states = <<>>
    /\ files = {}
    /\ _projects = <<>>
    /\ requests = <<>>

\* POST /projects, the whole of create_project.
PostProject ==
    \E chosen \in generate_unique_id(get_existing_project_ids) :
        /\ op' = "create_project"
        /\ args' = CanvasArgs(NoId, Canvas(<<>>, <<>>))
        /\ LET committed == Insert(projects, Project(chosen.value, "name"), "project_id")
           IN  IF chosen.raised
               THEN result' = Unhandled(chosen) /\ UNCHANGED projects
               ELSE IF committed.raised
               THEN result' = Unhandled(committed) /\ UNCHANGED projects
               ELSE /\ result' = Response(CanvasState(chosen.value, <<>>, <<>>))
                    /\ projects' = committed.value
        /\ UNCHANGED <<df, datasets, canvas_states, files, _projects, requests>>

\* PUT /projects/{project_id}/canvas
PutCanvas ==
    \E project_id \in IdPool, data \in Payloads :
        /\ op' = "save_canvas_state"
        /\ args' = CanvasArgs(project_id, data)
        /\ result' = save_canvas_state(project_id, data).response
        /\ canvas_states' = save_canvas_state(project_id, data).table
        /\ UNCHANGED <<df, projects, datasets, files, _projects, requests>>

\* DELETE /projects/{project_id}/canvas
DeleteCanvas ==
    \E project_id \in IdPool :
        /\ op' = "clear_canvas_state"
        /\ args' = CanvasArgs(project_id, Canvas(<<>>, <<>>))
        /\ result' = Response(CanvasState(project_id, <<>>, <<>>))
        /\ canvas_states' = clear_canvas_state(project_id)
        /\ UNCHANGED <<df, projects, datasets, files, _projects, requests>>

\* GET /projects/{project_id}/canvas
GetCanvas ==
    \E project_id \in IdPool :
        /\ op' = "get_canvas_state"
        /\ args' = CanvasArgs(project_id, Canvas(<<>>, <<>>))
        /\ result' = get_canvas_state(project_id)
        /\ UNCHANGED <<df, projects, datasets, canvas_states, files, _projects, requests>>

NextCanvas == PostProject \/ PutCanvas \/ DeleteCanvas \/ GetCanvas

SpecCanvas == InitCanvas /\ [][NextCanvas]_vars

(***************************************************************************)
(* C29.  The canvas follows the PUT and DELETE requests of its project.    *)
(***************************************************************************)
\* The canvases on record for the project.
Recorded(table, project_id) ==
    {Canvas(table[i].nodes, table[i].edges) :
        i \in {j \in DOMAIN table : table[j].project_id = project_id}}

IsProject(project_id) == project_id \in get_existing_project_ids

\* What one request does to the canvases: a PUT on a project leaves the
\* canvas it carried, a DELETE leaves none, both leave the other projects
\* alone; a GET answers the canvas on record, or the empty one, and changes
\* nothing; no other request touches a canvas.
CanvasStep ==
    LET p == args'.project_id
    IN  /\ op' = "save_canvas_state" /\ IsProject(p) =>
              /\ result'.status = 200
              /\ Recorded(canvas_states', p) = {args'.data}
        /\ op' = "clear_canvas_state" =>
              /\ result'.status = 200
              /\ Recorded(canvas_states', p) = {}
        /\ op' = "get_canvas_state" =>
              /\ result'.status = 200
              /\ result'.body.project_id = p
              /\ Canvas(result'.body.nodes, result'.body.edges) \in
                     (IF Recorded(canvas_states, p) = {}
                      THEN {Canvas(<<>>, <<>>)} ELSE Recorded(canvas_states, p))
        /\ \A q \in IdPool :
              \/ q = p /\ op' \in {"save_canvas_state", "clear_canvas_state"}
              \/ Recorded(canvas_states', q) = Recorded(canvas_states, q)

\* At most one canvas_states row for a project.
OneCanvasEach ==
    \A i, j \in DOMAIN canvas_states :
        canvas_states[i].project_id = canvas_states[j].project_id => i = j

\* C29: with the requests on /projects/{project_id}/canvas executed one after
\* another, GET returns the nodes and edges of the most recent PUT of the
\* project when no DELETE followed it and empty nodes and edges otherwise,
\* there is at most one canvas-state record per project in every reachable
\* state, and a request on one project never changes the canvas of another.
C29_CanvasFollowsRequests == []OneCanvasEach /\ [][CanvasStep]_vars

\* GET answers the two nodes and the edge put last on the project, while
\* another project keeps a canvas of its own.
C29_Witness ==
    /\ op = "get_canvas_state"
    /\ result.status = 200
    /\ result.body.nodes = <<"n1", "n2">> /\ result.body.edges = <<"e1">>
    /\ \E i \in DOMAIN canvas_states :
          /\ canvas_states[i].project_id # args.project_id
          /\ canvas_states[i].nodes = <<"n1">>

==============================================================================
